---- MODULE Spec2Model ----
(***************************************************************************)
(* A model of reddec/rpc: exposing an object's methods as HTTP endpoints.  *)
(*                                                                         *)
(*   rpc.Index / ExposedMethod.invoke / Router / Builder   (src/rpc.go)    *)
(*   jrpc.New / RPC.ServeHTTP / exposedMethod.call      (src/jrpc/rpc.go)  *)
(*                                                                         *)
(* Go values, JSON texts, requests and responses are tagged tuples: the    *)
(* first element names the kind, so values of different kinds can sit in   *)
(* one set.  Method names and URL paths are sequences of one-character     *)
(* strings, so that strings.ToLower, strings.TrimPrefix and path.Base are  *)
(* computed character by character.                                        *)
(***************************************************************************)
EXTENDS Integers, Sequences, FiniteSets, TLC

VARIABLES
    object,     \* the exposed object's method set (reflect: t.Method(i))
    index,      \* rpc.Index(object): name -> ExposedMethod
    served,     \* which handler served the request ("none" before it)
    target,     \* the key of index whose handler a test called directly
    request,    \* the *http.Request given to the handler
    response,   \* what the http.ResponseWriter recorded
    calls,      \* the invocations made through method.Func.Call
    requestID,  \* server.requestID of the session factory
    sessions,   \* what the session factory returned, one entry per invocation
    inflight,   \* the requests being served concurrently: id -> handler frame
    api,        \* the index given to schema.OpenAPI: name -> argument and result types
    pending,    \* the methods the range over the index has not visited yet
    sb,         \* the schemaBuilder: components, names, hooks
    schema,     \* the Schema being built: paths and components
    returned    \* build has returned the schema

\* the variables of the handlers and the variables of the schema synthesis
handlerVars == <<object, index, served, target, request, response, calls, requestID,
                 sessions, inflight>>
schemaVars == <<api, pending, sb, schema, returned>>

vars == <<handlerVars, schemaVars>>

(***************************************************************************)
(* Bounds of the model.                                                    *)
(***************************************************************************)
\* the longest JSON array a request body holds
MaxElems == 3
\* the JSON integers of a body are 1..MaxNum
MaxNum == 2

(***************************************************************************)
(* Strings as character sequences.                                         *)
(***************************************************************************)
UpperLetters ==
    <<"A","B","C","D","E","F","G","H","I","J","K","L","M",
      "N","O","P","Q","R","S","T","U","V","W","X","Y","Z">>

LowerLetters ==
    <<"a","b","c","d","e","f","g","h","i","j","k","l","m",
      "n","o","p","q","r","s","t","u","v","w","x","y","z">>

IsUpper(c) == \E i \in DOMAIN UpperLetters : UpperLetters[i] = c

ToLowerChar(c) ==
    IF IsUpper(c)
    THEN LowerLetters[CHOOSE i \in DOMAIN UpperLetters : UpperLetters[i] = c]
    ELSE c

\* strings.ToLower
ToLower(s) == [i \in 1..Len(s) |-> ToLowerChar(s[i])]

\* strings.TrimPrefix(s, "/")
TrimSlash(s) == IF Len(s) > 0 /\ s[1] = "/" THEN Tail(s) ELSE s

\* "/" + s
Slash(s) == <<"/">> \o s

\* path.Base: trailing slashes dropped, then the text after the last slash;
\* "." for the empty path and "/" for a path of slashes only
RECURSIVE DropTrailingSlashes(_)
DropTrailingSlashes(s) ==
    IF Len(s) > 0 /\ s[Len(s)] = "/"
    THEN DropTrailingSlashes(SubSeq(s, 1, Len(s) - 1))
    ELSE s

LastSlash(s) ==
    IF \E i \in DOMAIN s : s[i] = "/"
    THEN CHOOSE i \in DOMAIN s : s[i] = "/" /\ \A j \in DOMAIN s : s[j] = "/" => j <= i
    ELSE 0

PathBase(p) ==
    IF Len(p) = 0 THEN <<".">>
    ELSE LET t == DropTrailingSlashes(p)
         IN  IF Len(t) = 0 THEN <<"/">>
             ELSE SubSeq(t, LastSlash(t) + 1, Len(t))

\* go/token.IsExported: the first letter is upper case
IsExported(name) == Len(name) > 0 /\ IsUpper(name[1])

(***************************************************************************)
(* Go types and values.                                                    *)
(*   types : "int", "string", "SomeObj" (struct{Hello string}), "[]int",   *)
(*           "Context" (context.Context), "error"                          *)
(*   values: <<"int", n>>, <<"string", s>>, <<"SomeObj", hello>>,          *)
(*           <<"[]int", seq>>, <<"ctx", id>>, <<"error", msg>>, <<"nil">>  *)
(***************************************************************************)
Nil == <<"nil">>

\* reflect.Type.Implements(errorInterface)
ImplementsError(t) == t = "error"

\* reflect.Type.Implements(ctxInterface)
ImplementsContext(t) == t = "Context"

\* reflect.New(t).Elem(): the zero value
Zero(t) ==
    CASE t = "int"     -> <<"int", 0>>
      [] t = "string"  -> <<"string", "">>
      [] t = "SomeObj" -> <<"SomeObj", "">>
      [] t = "[]int"   -> <<"[]int", <<>>>>
      [] OTHER         -> Nil

\* the name reflect prints for a type in a json error
GoTypeName(t) ==
    CASE t = "SomeObj" -> "rpc_test.SomeObj"
      [] t = "Context" -> "context.Context"
      [] OTHER         -> t

(***************************************************************************)
(* JSON.  A body is <<"empty">> (no bytes), <<"garbage">> (bytes that are  *)
(* no JSON, such as abcd,123) or a JSON text:                              *)
(*   <<"null">>, <<"num", n>>, <<"str", s>>, <<"obj", fields>>,            *)
(*   <<"arr", elements>>                                                   *)
(***************************************************************************)
JNull == <<"null">>
JNum(n) == <<"num", n>>
JStr(s) == <<"str", s>>
JObj(f) == <<"obj", f>>
JArr(e) == <<"arr", e>>

\* the word encoding/json uses for a JSON text in an UnmarshalTypeError
JsonKindName(j) ==
    CASE j[1] = "num" -> "number"
      [] j[1] = "str" -> "string"
      [] j[1] = "obj" -> "object"
      [] j[1] = "arr" -> "array"
      [] OTHER        -> "null"

Ok(v) == [ok |-> TRUE, v |-> v, err |-> ""]
Err(msg) == [ok |-> FALSE, v |-> Nil, err |-> msg]

TypeError(j, t) ==
    "json: cannot unmarshal " \o JsonKindName(j) \o " into Go value of type " \o GoTypeName(t)

FieldError(j) ==
    "json: cannot unmarshal " \o JsonKindName(j)
        \o " into Go struct field SomeObj.Hello of type string"

\* json.Unmarshal(raw, reflect.New(t).Interface()) for a well-formed raw:
\* null leaves the zero value; a text of another kind than the type's is an error
Unmarshal(raw, t) ==
    IF raw[1] = "null" THEN Ok(Zero(t))
    ELSE CASE t = "int" ->
                IF raw[1] = "num" THEN Ok(<<"int", raw[2]>>) ELSE Err(TypeError(raw, t))
           [] t = "string" ->
                IF raw[1] = "str" THEN Ok(<<"string", raw[2]>>) ELSE Err(TypeError(raw, t))
           [] t = "SomeObj" ->
                IF raw[1] # "obj" THEN Err(TypeError(raw, t))
                ELSE IF "Hello" \notin DOMAIN raw[2] THEN Ok(Zero(t))
                ELSE LET f == raw[2].Hello
                     IN  IF f[1] = "str" THEN Ok(<<"SomeObj", f[2]>>)
                         ELSE IF f[1] = "null" THEN Ok(Zero(t))
                         ELSE Err(FieldError(f))
           [] t = "[]int" ->
                IF raw[1] # "arr" THEN Err(TypeError(raw, t))
                ELSE LET e == raw[2]
                         bad == {i \in DOMAIN e : e[i][1] \notin {"num", "null"}}
                     IN  IF bad = {}
                         THEN Ok(<<"[]int", [i \in DOMAIN e |->
                                        IF e[i][1] = "num" THEN e[i][2] ELSE 0]>>)
                         ELSE Err(TypeError(e[CHOOSE i \in bad : \A k \in bad : i <= k], "int"))
           [] OTHER -> Err(TypeError(raw, t))

\* json.Marshal / Encoder.Encode of a Go value
Marshal(v) ==
    CASE v[1] = "int"     -> JNum(v[2])
      [] v[1] = "string"  -> JStr(v[2])
      [] v[1] = "SomeObj" -> JObj([Hello |-> JStr(v[2])])
      [] v[1] = "error"   -> JObj(<<>>)
      [] OTHER            -> JNull

\* a variant that takes a body without a byte as no element
MutDecodeParamsEmptyOk(body) ==
    CASE body[1] = "empty"   -> Ok(<<>>)
      [] body[1] = "garbage" -> Err("invalid character 'a' looking for beginning of value")
      [] body[1] = "null"    -> Ok(<<>>)
      [] body[1] = "arr"     -> Ok(body[2])
      [] OTHER               -> Err(TypeError(body, "[]json.RawMessage"))

\* json.NewDecoder(body).Decode(&params) with params []json.RawMessage
DecodeParams(body) ==
    CASE body[1] = "empty"   -> Err("EOF")
      [] body[1] = "garbage" -> Err("invalid character 'a' looking for beginning of value")
      [] body[1] = "null"    -> Ok(<<>>)
      [] body[1] = "arr"     -> Ok(body[2])
      [] OTHER               -> Err(TypeError(body, "[]json.RawMessage"))

\* json.NewDecoder(body).Decode(&input) with input json.RawMessage
DecodeRaw(body) ==
    CASE body[1] = "empty"   -> Err("EOF")
      [] body[1] = "garbage" -> Err("invalid character 'a' looking for beginning of value")
      [] OTHER               -> Ok(body)

(***************************************************************************)
(* Methods.  A method of the exposed object is                             *)
(*   [name, in, out, fails]                                                *)
(* in: the declared parameter types after the receiver; out: the result    *)
(* types; fails: whether its error result is non-nil.  The bodies are the  *)
(* ones of the test objects: Foo4 returns 123, Hi returns "hello", Greet   *)
(* returns a greeting made of the receiver's user and request number; the  *)
(* int result of any other method is the sum of its int arguments (Calc,   *)
(* Sum, SumCtx; 0 without one, as Foo5); an error result is                *)
(* errors.New("fail") (Fail) or nil.                                       *)
(***************************************************************************)
CalcName == <<"C","a","l","c">>
SkippedName == <<"S","k","i","p","p","e","d">>
UnexportedName == <<"u","n","e","x","p","o","r","t","e","d">>
UnknownName == <<"U","n","k","n","o","w","n">>
ShoutedName == <<"C","A","L","C">>

\* func (api *api) Skipped() (int, int)
Skipped == [name |-> SkippedName, in |-> <<>>, out |-> <<"int", "int">>, fails |-> FALSE]

\* func (api *api) unexported()
Unexported == [name |-> UnexportedName, in |-> <<>>, out |-> <<>>, fails |-> FALSE]

\* func (api *api) Foo4() int { return 123 }
Foo4 == [name |-> <<"F","o","o","4">>, in |-> <<>>, out |-> <<"int">>, fails |-> FALSE]

\* func (c *Calc) Hi() string { return "hello" }
Hi == [name |-> <<"H","i">>, in |-> <<>>, out |-> <<"string">>, fails |-> FALSE]

\* func (us *userSession) Greet() string
Greet == [name |-> <<"G","r","e","e","t">>, in |-> <<>>, out |-> <<"string">>,
          fails |-> FALSE]

\* the parameter lists of the test objects' methods (Nothing, Foo0, Foo1, Foo2,
\* Calc; jrpc: Sum, SumCtx, Greet), and one with a context that is not first
InLists ==
    { <<>>,
      <<"Context">>,
      <<"Context", "int", "SomeObj">>,
      <<"int", "string">>,
      <<"int", "int">>,
      <<"[]int">>,
      <<"Context", "[]int">>,
      <<"SomeObj">>,
      <<"int", "Context">> }

\* result lists: none, one or two of a value and an error, and three results
OutLists ==
    { <<>>, <<"int">>, <<"error">>,
      <<"int", "error">>, <<"int", "int">>, <<"error", "int">>, <<"error", "error">>,
      <<"int", "int", "error">> }

HasErrorResult(out) == \E i \in DOMAIN out : out[i] = "error"

\* the declarations of the object's method: every parameter list with a value
\* result or a value and an error, and every result list with no parameter or
\* with two ints
MethodDecls ==
    { m \in [name : {CalcName}, in : InLists, out : OutLists, fails : BOOLEAN] :
        /\ m.fails => HasErrorResult(m.out)
        /\ \/ m.out \in {<<"int">>, <<"int", "error">>}
           \/ m.in \in {<<>>, <<"int", "int">>} }

\* an object with two exported methods whose names differ in case only:
\* func (api *api) Calc(a, b int) int and func (api *api) CALC() int
TwoCalcs ==
    { [name |-> CalcName, in |-> <<"int", "int">>, out |-> <<"int">>, fails |-> FALSE],
      [name |-> ShoutedName, in |-> <<>>, out |-> <<"int">>, fails |-> FALSE],
      Skipped, Unexported }

\* the objects given to Index, jrpc.New and (as the session type) Builder
Objects ==
    { {m, Skipped, Unexported} : m \in MethodDecls }
    \cup {TwoCalcs, {Foo4, Skipped, Unexported}, {Hi}, {Greet}}

\* reflect.Type.NumMethod / Method(i): the exported methods only
Methods(obj) == { m \in obj : IsExported(m.name) }

\* method.Type.NumIn(): the receiver counts
NumIn(m) == Len(m.in) + 1

\* method.Type.NumOut()
NumOut(m) == Len(m.out)

RECURSIVE SumSeq(_)
SumSeq(s) == IF s = <<>> THEN 0 ELSE Head(s) + SumSeq(Tail(s))

IntOf(v) ==
    CASE v[1] = "int"   -> v[2]
      [] v[1] = "[]int" -> SumSeq(v[2])
      [] OTHER          -> 0

RECURSIVE SumArgs(_)
SumArgs(args) == IF args = <<>> THEN 0 ELSE IntOf(Head(args)) + SumArgs(Tail(args))

\* fmt.Sprint("Hello, ", us.user, "! Your request is ", us.request) on the
\* receiver; the fields of a receiver that is no session made by the factory
\* are zero
Greeting(receiver) ==
    LET user == IF receiver[1] = "session" THEN receiver[2] ELSE ""
        number == IF receiver[1] = "session" THEN receiver[3] ELSE 0
    IN  <<"string", "Hello, " \o user \o "! Your request is " \o ToString(number)>>

\* the value the body of the method returns
ValueOf(m, args) ==
    CASE m.name = Foo4.name  -> <<"int", 123>>
      [] m.name = Hi.name    -> <<"string", "hello">>
      [] m.name = Greet.name -> Greeting(args[1])
      [] OTHER               -> <<"int", SumArgs(args)>>

\* method.Func.Call(args): the results of the method's body
Call(m, args) ==
    [i \in 1..Len(m.out) |->
        IF m.out[i] = "error"
        THEN (IF m.fails THEN <<"error", "fail">> ELSE Nil)
        ELSE ValueOf(m, args)]

\* toAny: v.Interface() of every result
toAny(values) == [i \in DOMAIN values |-> values[i]]

(***************************************************************************)
(* rpc.Index                                                               *)
(***************************************************************************)
\* hasError := out > 0 && method.Type.Out(out-1).Implements(errorInterface)
HasError(m) == NumOut(m) > 0 /\ ImplementsError(m.out[NumOut(m)])

\* a variant that only rejects more than two results
MutRejectedTooManyOnly(out, hasError) == out > 2

\* if out > 2 || (out == 2 && !hasError) { continue }
Rejected(out, hasError) == out > 2 \/ (out = 2 /\ ~hasError)

\* hasResponse := out == 1 && !hasError || out == 2
HasResponse(out, hasError) == (out = 1 /\ ~hasError) \/ out = 2

\* hasContext := args > 1 && method.Type.In(1).Implements(ctxInterface)
HasContext(m) == NumIn(m) > 1 /\ ImplementsContext(m.in[1])

\* a variant that never steps over the context
MutOffsetReceiverOnly(hasContext) == 1

\* offset = 1 (the receiver), one more with a context
Offset(hasContext) == IF hasContext THEN 2 ELSE 1

\* for arg := offset; arg < args; arg++ { argTypes = append(argTypes, In(arg)) }
ArgTypes(m, offset) == [i \in 1..(NumIn(m) - offset) |-> m.in[offset + i - 1]]

ExposedMethodOf(m, value) ==
    LET hasError == HasError(m)
        hasContext == HasContext(m)
        offset == Offset(hasContext)
    IN  [ args        |-> NumIn(m),
          receiver    |-> value,
          argTypes    |-> ArgTypes(m, offset),
          hasResponse |-> HasResponse(NumOut(m), hasError),
          hasContext  |-> hasContext,
          hasError    |-> hasError,
          offset      |-> offset,
          method      |-> m ]

Index(obj, value) ==
    LET kept == { m \in Methods(obj) : ~Rejected(NumOut(m), HasError(m)) }
    IN  [ name \in { m.name : m \in kept } |->
            ExposedMethodOf(CHOOSE m \in kept : m.name = name, value) ]

(***************************************************************************)
(* Requests and responses.                                                 *)
(*   request : [method, path, body, user, ctx]  (user: the X-User header,  *)
(*             ctx: request.Context())                                     *)
(*   response: [code, ctype, body]; body is <<"empty">>, <<"text", s>>     *)
(*             (bytes written as they are), <<"json", j>> (Encoder.Encode: *)
(*             the indented text of j and a line feed), <<"raw", j>>       *)
(*             (json.Marshal's bytes), <<"page">> or <<"schema">>          *)
(***************************************************************************)
StatusOK == 200
StatusNoContent == 204
StatusBadRequest == 400
StatusNotFound == 404
StatusMethodNotAllowed == 405
StatusInternalServerError == 500

NoBody == <<"empty">>
Text(s) == <<"text", s>>

RequestCtx == <<"ctx", "request">>

NoRequest == [method |-> "", path |-> <<>>, body |-> <<"empty">>, user |-> "", ctx |-> Nil]
NoResponse == [code |-> 0, ctype |-> "", body |-> NoBody]

\* http.Error(writer, msg, code)
HttpError(msg, code) ==
    [code |-> code, ctype |-> "text/plain; charset=utf-8", body |-> Text(msg \o "\n")]

\* writer.WriteHeader(code) and nothing else
HeaderOnly(code) == [code |-> code, ctype |-> "", body |-> NoBody]

\* what a handler did: the response it wrote and the calls it made
Outcome(resp, made) == [response |-> resp, calls |-> made]

(***************************************************************************)
(* ExposedMethod.invoke                                                    *)
(***************************************************************************)
\* a variant that wants exactly as many elements as arguments
MutNotEnoughExact(params, dataArgs) == params # dataArgs

\* if len(params) < len(dataArgs)
NotEnough(params, dataArgs) == params < dataArgs

\* for arg := range dataArgs: json.Unmarshal(params[arg], reflect.New(argTypes[arg]));
\* the first error ends the loop
RECURSIVE BindFrom(_, _, _)
BindFrom(argTypes, params, arg) ==
    IF arg > Len(argTypes) THEN Ok(<<>>)
    ELSE LET u == Unmarshal(params[arg], argTypes[arg])
         IN  IF ~u.ok THEN Err(u.err)
             ELSE LET rest == BindFrom(argTypes, params, arg + 1)
                  IN  IF rest.ok THEN Ok(<<u.v>> \o rest.v) ELSE rest

\* a variant that leaves the zero value where an element does not decode
MutBindArgsDefaults(argTypes, params) ==
    Ok([i \in 1..Len(argTypes) |->
          LET u == Unmarshal(params[i], argTypes[i])
          IN  IF u.ok THEN u.v ELSE Zero(argTypes[i])])

\* a variant that fills the arguments from the last to the first
MutBindArgsReversed(argTypes, params) ==
    LET r == BindFrom(argTypes, params, 1)
    IN  IF r.ok THEN Ok([i \in 1..Len(r.v) |-> r.v[Len(r.v) + 1 - i]]) ELSE r

BindArgs(argTypes, params) == BindFrom(argTypes, params, 1)

\* argValues: [0] the receiver, [1] the request's context when the method takes
\* one, dataArgs = argValues[offset:] the bound arguments
ArgValues(em, receiver, req, dataArgs) ==
    [i \in 1..(em.offset + Len(em.argTypes)) |->
        IF i > em.offset THEN dataArgs[i - em.offset]
        ELSE IF i = 1 THEN receiver
        ELSE IF em.hasContext /\ i = 2 THEN req.ctx
        ELSE Nil]

\* a variant that drops the error result
MutAppErrorIgnored(hasError, responseValues) == Nil

\* if em.hasError { if v := responseValues[len-1]; v != nil { appError = v.(error) } }
AppError(hasError, responseValues) ==
    IF hasError /\ responseValues[Len(responseValues)] # Nil
    THEN responseValues[Len(responseValues)]
    ELSE Nil

\* a variant that writes no body when the method has no value result
MutInvokeResponseNoBody(em, output) ==
    LET responseValues == toAny(output)
        hasErr == em.hasError /\ responseValues[Len(responseValues)] # Nil
    IN  IF hasErr
        THEN [code |-> StatusInternalServerError, ctype |-> "",
              body |-> <<"text", responseValues[Len(responseValues)][2]>>]
        ELSE IF ~em.hasResponse THEN [code |-> StatusOK, ctype |-> "", body |-> <<"empty">>]
        ELSE [code |-> StatusOK, ctype |-> "application/json",
              body |-> <<"json", Marshal(responseValues[1])>>]

\* the response of invoke once the method has returned
InvokeResponse(em, output) ==
    LET responseValues == toAny(output)
        appError == AppError(em.hasError, responseValues)
        values == IF em.hasError
                  THEN SubSeq(responseValues, 1, Len(responseValues) - 1)
                  ELSE responseValues
        resp == IF em.hasResponse THEN values[1] ELSE Nil
    IN  IF appError # Nil
        THEN [code |-> StatusInternalServerError, ctype |-> "", body |-> Text(appError[2])]
        ELSE [code |-> StatusOK, ctype |-> "application/json",
              body |-> <<"json", Marshal(resp)>>]

invoke(em, receiver, req) ==
    LET dec == DecodeParams(req.body)
    IN  IF ~dec.ok THEN Outcome(HttpError(dec.err, StatusBadRequest), <<>>)
        ELSE IF NotEnough(Len(dec.v), Len(em.argTypes))
        THEN Outcome(HttpError("not enough arguments, expected "
                                  \o ToString(Len(em.argTypes)), StatusBadRequest), <<>>)
        ELSE LET bound == BindArgs(em.argTypes, dec.v)
             IN  IF ~bound.ok THEN Outcome(HttpError(bound.err, StatusBadRequest), <<>>)
                 ELSE LET argValues == ArgValues(em, receiver, req, bound.v)
                          output == Call(em.method, argValues)
                      IN  Outcome(InvokeResponse(em, output),
                                  <<[name |-> em.method.name, args |-> argValues]>>)

\* ExposedMethod.ServeHTTP
MethodServeHTTP(em, req) == invoke(em, em.receiver, req)

(***************************************************************************)
(* Router                                                                  *)
(***************************************************************************)
\* a variant that lets PUT through as well
MutNotPostAllowsPut(req) == req.method \notin {"POST", "PUT"}

\* if request.Method != http.MethodPost
NotPost(req) == req.method # "POST"

\* mux.Handle("/"+strings.ToLower(name), handler) for every indexed method
Routes(idx) == { Slash(ToLower(name)) : name \in DOMAIN idx }

RouteTarget(idx, path) == CHOOSE name \in DOMAIN idx : Slash(ToLower(name)) = path

\* mux.Handle panics when a pattern is registered twice: Router cannot be built
\* from an index with two names that have the same lower-cased form
RouterPanics(idx) == \E a, b \in DOMAIN idx : a # b /\ ToLower(a) = ToLower(b)

RouterServeHTTP(idx, req) ==
    IF NotPost(req)
    THEN Outcome(HttpError("only POST supported", StatusMethodNotAllowed), <<>>)
    ELSE IF req.path \notin Routes(idx)
    THEN Outcome(HttpError("404 page not found", StatusNotFound), <<>>)
    ELSE MethodServeHTTP(idx[RouteTarget(idx, req.path)], req)

(***************************************************************************)
(* Builder, with the session factory of the tests                          *)
(***************************************************************************)
\* var t T: the zero value the methods are indexed on
ZeroReceiver == <<"zero">>

\* the receiver given to Index by Router and by jrpc.New
ObjectReceiver == <<"object">>

\* server.newSession: "fail" as the user is an error, otherwise a session that
\* holds the user and the next request number
newSession(req, id) ==
    IF req.user = "fail"
    THEN [value |-> Nil, err |-> <<"error", "failed">>, id |-> id]
    ELSE [value |-> <<"session", req.user, id + 1>>, err |-> Nil, id |-> id + 1]

\* for name, handler := range handlers { caseHandlers[strings.ToLower(name)] =
\* handler }: of two names with one lower-cased form the one written last
\* stays, and the order of a range over a map is not fixed.  Every map the
\* loop can leave, as lower-cased name -> the name whose handler it holds
CaseHandlers(handlers) ==
    { ch \in [ {ToLower(name) : name \in DOMAIN handlers} -> DOMAIN handlers ] :
        \A k \in DOMAIN ch : ToLower(ch[k]) = k }

\* handler, ok := caseHandlers[method]
CaseHandler(handlers, caseHandlers, method) == handlers[caseHandlers[method]]

\* a variant that does not look at the factory's error
MutFactoryFailedNever(session) == FALSE

\* if err != nil after factory(request)
FactoryFailed(session) == session.err # Nil

\* a variant that serves the request through ExposedMethod.ServeHTTP, on the
\* receiver the methods were indexed on
MutReceiverIndexed(em, value) == em.receiver

\* receiver := reflect.ValueOf(value): the receiver handler.invoke is given
ReceiverOf(em, value) == value

\* the handler Builder returns: [response, calls, id (the factory's counter),
\* sessions (what the factory returned, if it was invoked), target (the name of
\* the handler found)]
BuilderServeHTTP(handlers, caseHandlers, req, id) ==
    LET method == ToLower(TrimSlash(req.path))
        none == [calls |-> <<>>, id |-> id, sessions |-> <<>>, target |-> <<>>]
    IN  IF NotPost(req)
        THEN none @@ [response |-> HeaderOnly(StatusMethodNotAllowed)]
        ELSE IF method \notin DOMAIN caseHandlers
        THEN none @@ [response |-> HeaderOnly(StatusNotFound)]
        ELSE LET handler == CaseHandler(handlers, caseHandlers, method)
                 session == newSession(req, id)
             IN  IF FactoryFailed(session)
                 THEN [response |-> [code |-> StatusInternalServerError, ctype |-> "",
                                     body |-> Text(session.err[2])],
                       calls |-> <<>>, id |-> session.id,
                       sessions |-> <<session>>, target |-> handler.method.name]
                 ELSE LET out == invoke(handler, ReceiverOf(handler, session.value), req)
                      IN  [response |-> out.response, calls |-> out.calls,
                           id |-> session.id,
                           sessions |-> <<session>>, target |-> handler.method.name]

(***************************************************************************)
(* jrpc.New and RPC.ServeHTTP                                              *)
(***************************************************************************)
\* the methods jrpc.New leaves out: more than two results, two results without
\* a final error, more than receiver + context + argument, or two data arguments
JrpcRejected(m) ==
    \/ NumOut(m) > 2
    \/ (NumOut(m) = 2 /\ ~HasError(m))
    \/ NumIn(m) > 3
    \/ (~HasContext(m) /\ NumIn(m) = 3)

\* hasArg := hasContext && args == 3 || !hasContext && args == 2
HasArg(m) == (HasContext(m) /\ NumIn(m) = 3) \/ (~HasContext(m) /\ NumIn(m) = 2)

JrpcMethodOf(m, value) ==
    [ hasContext  |-> HasContext(m),
      hasArg      |-> HasArg(m),
      hasError    |-> HasError(m),
      hasResponse |-> HasResponse(NumOut(m), HasError(m)),
      obj         |-> value,
      argType     |-> IF HasArg(m) THEN m.in[NumIn(m) - 1] ELSE "",
      retType     |-> IF HasResponse(NumOut(m), HasError(m)) THEN m.out[1] ELSE "",
      method      |-> m ]

JrpcNew(obj, value) ==
    LET kept == { m \in Methods(obj) : ~JrpcRejected(m) }
    IN  [ name \in { m.name : m \in kept } |->
            JrpcMethodOf(CHOOSE m \in kept : m.name = name, value) ]

\* exposedMethod.parseArg
parseArg(m, data) ==
    LET u == Unmarshal(data, m.argType)
    IN  IF ~u.ok THEN Err("decode payload: " \o u.err) ELSE u

\* call, up to method.Func.Call: the argument vector made for this call (the
\* receiver, the context, the parsed payload), or the error of parseArg
callArgs(m, ctx, data) ==
    LET parsed == IF m.hasArg THEN parseArg(m, data) ELSE Ok(Nil)
    IN  IF ~parsed.ok THEN Err("parse: " \o parsed.err)
        ELSE Ok(<<m.obj>> \o (IF m.hasContext THEN <<ctx>> ELSE <<>>)
                          \o (IF m.hasArg THEN <<parsed.v>> ELSE <<>>))

\* call, from method.Func.Call(args) on: [res, err, calls]
callReturn(m, args) ==
    LET responseValues == toAny(Call(m.method, args))
        made == <<[name |-> m.method.name, args |-> args]>>
        appError == AppError(m.hasError, responseValues)
    IN  IF appError # Nil THEN [res |-> Nil, err |-> appError, calls |-> made]
        ELSE IF ~m.hasResponse THEN [res |-> Nil, err |-> Nil, calls |-> made]
        ELSE [res |-> Marshal(responseValues[1]), err |-> Nil, calls |-> made]

\* exposedMethod.call: [res, err, calls]
call(m, ctx, data) ==
    LET args == callArgs(m, ctx, data)
    IN  IF ~args.ok THEN [res |-> Nil, err |-> <<"error", args.err>>, calls |-> <<>>]
        ELSE callReturn(m, args.v)

\* what RPC.ServeHTTP writes once call has returned
JrpcResponse(m, out) ==
    IF out.err # Nil
    THEN [code |-> StatusInternalServerError, ctype |-> "text/plain",
          body |-> Text(out.err[2])]
    ELSE IF ~m.hasResponse THEN HeaderOnly(StatusNoContent)
    ELSE [code |-> StatusOK, ctype |-> "application/json", body |-> <<"raw", out.res>>]

\* a variant that decodes the body of every request
MutReadsBodyAlways(m) == TRUE

\* if m.hasArg { json.NewDecoder(request.Body).Decode(&input) }
ReadsBody(m) == m.hasArg

SwaggerName == <<"s","w","a","g","g","e","r",".","j","s","o","n">>

\* a variant that ignores the case of the letters
MutJrpcLookupAnyCase(methods, method) ==
    { name \in DOMAIN methods : ToLower(name) = ToLower(method) }

\* m, ok := rpc.methods[method]: the keys equal to the name, none or one
JrpcLookup(methods, method) == { name \in DOMAIN methods : name = method }

JrpcServeHTTP(methods, req) ==
    LET method == PathBase(req.path)
    IN  IF req.method = "GET" /\ (method = <<>> \/ method = <<"/">>)
        THEN Outcome([code |-> StatusOK, ctype |-> "text/html", body |-> <<"page">>], <<>>)
        ELSE IF req.method = "GET" /\ method = SwaggerName
        THEN Outcome([code |-> StatusOK, ctype |-> "application/json",
                      body |-> <<"schema">>], <<>>)
        ELSE IF NotPost(req)
        THEN Outcome(HeaderOnly(StatusMethodNotAllowed), <<>>)
        ELSE IF JrpcLookup(methods, method) = {}
        THEN Outcome(HeaderOnly(StatusNotFound), <<>>)
        ELSE LET m == methods[CHOOSE name \in JrpcLookup(methods, method) : TRUE]
                 input == IF ReadsBody(m) THEN DecodeRaw(req.body) ELSE Ok(Nil)
             IN  IF ~input.ok
                 THEN Outcome([code |-> StatusBadRequest, ctype |-> "text/plain",
                               body |-> Text(input.err)], <<>>)
                 ELSE LET out == call(m, req.ctx, input.v)
                      IN  Outcome(JrpcResponse(m, out), out.calls)

(***************************************************************************)
(* The requests of the model.                                              *)
(***************************************************************************)
Nums == 1..MaxNum

SomeObjHello == JObj([Hello |-> JStr("hello")])

\* the elements of a positional body
Elems == {JNull, JStr("hello"), SomeObjHello} \cup {JNum(n) : n \in Nums}

RECURSIVE SeqsUpTo(_, _)
SeqsUpTo(S, n) ==
    IF n = 0 THEN {<<>>}
    ELSE LET shorter == SeqsUpTo(S, n - 1)
         IN  shorter \cup {Append(s, e) : s \in {t \in shorter : Len(t) = n - 1}, e \in S}

Arrays == {JArr(e) : e \in SeqsUpTo(Elems, MaxElems)}

\* no bytes, bytes that are no JSON, and the JSON texts
Bodies ==
    {<<"empty">>, <<"garbage">>, JObj([Hello |-> JNum(1)]), JObj(<<>>)} \cup Elems \cup Arrays

SmallBodies ==
    {<<"empty">>, <<"garbage">>, JNull, JArr(<<>>), JArr(<<JNum(1), JNum(2)>>), SomeObjHello}

HttpMethods == {"POST", "PUT", "GET"}

CalcMixedName == <<"c","A","l","C">>

NestedCalcPath == <<"/","v","1">> \o Slash(CalcName)

Paths ==
    { Slash(CalcName), Slash(ToLower(CalcName)), Slash(CalcMixedName), NestedCalcPath,
      Slash(SkippedName), Slash(UnexportedName), Slash(UnknownName),
      <<"/">>, Slash(SwaggerName) }

Request(method, path, body, user) ==
    [method |-> method, path |-> path, body |-> body, user |-> user, ctx |-> RequestCtx]

\* every body POSTed to one path by one user
Posts(path, user) == {Request("POST", path, b, user) : b \in Bodies}

\* every HTTP method and path with a few bodies
Probes(users) ==
    {Request(h, p, b, u) : h \in HttpMethods, p \in Paths, b \in SmallBodies, u \in users}

\* the requests given to Router, to Builder and to jrpc.RPC
\* the calls of Foo4, Hi and Greet: each path with the body [] and with a
\* body of numbers
TestCalls(users) ==
    { Request("POST", p, b, u) :
        p \in { Slash(Foo4.name), Slash(ToLower(Foo4.name)), Slash(Hi.name),
                Slash(ToLower(Hi.name)), Slash(Greet.name), Slash(ToLower(Greet.name)) },
        b \in { JArr(<<>>), JArr(<<JNum(1), JNum(2)>>) },
        u \in users }

RouterRequests ==
    Posts(Slash(ToLower(CalcName)), "reddec") \cup Probes({"reddec"})
    \cup TestCalls({"reddec"})
BuilderRequests ==
    Posts(Slash(CalcName), "reddec") \cup Probes({"reddec", "fail"})
    \cup TestCalls({"reddec", "fail"})
JrpcRequests ==
    Posts(Slash(CalcName), "reddec") \cup Probes({"reddec"}) \cup TestCalls({"reddec"})

(***************************************************************************)
(* The state machine: an object is indexed, then one request is served by  *)
(* one of the four handlers.                                               *)
(***************************************************************************)
Init ==
    /\ object \in Objects
    /\ index = Index(object, ObjectReceiver)
    /\ served = "none"
    /\ target = <<>>
    /\ request = NoRequest
    /\ response = NoResponse
    /\ calls = <<>>
    /\ requestID = 0
    /\ sessions = <<>>
    /\ inflight = <<>>
    /\ api = <<>> /\ pending = {} /\ sb = <<>> /\ schema = <<>> /\ returned = FALSE

\* index[name].ServeHTTP(rec, req), as the tests of Index call it
ServeMethod ==
    /\ served = "none"
    /\ \E name \in DOMAIN index, body \in Bodies :
        LET req == Request("POST", <<"/">>, body, "reddec")
            out == MethodServeHTTP(index[name], req)
        IN  /\ served' = "method"
            /\ target' = name
            /\ request' = req
            /\ response' = out.response
            /\ calls' = out.calls
    /\ UNCHANGED <<object, index, requestID, sessions, inflight>>
    /\ UNCHANGED schemaVars

\* Router(index).ServeHTTP(rec, req)
ServeRouter ==
    /\ served = "none"
    /\ ~RouterPanics(index)
    /\ \E req \in RouterRequests :
        LET out == RouterServeHTTP(index, req)
        IN  /\ served' = "router"
            /\ request' = req
            /\ response' = out.response
            /\ calls' = out.calls
    /\ UNCHANGED <<object, index, target, requestID, sessions, inflight>>
    /\ UNCHANGED schemaVars

\* Builder(srv.newSession).ServeHTTP(rec, req)
ServeBuilder ==
    /\ served = "none"
    /\ \E req \in BuilderRequests :
        LET handlers == Index(object, ZeroReceiver)
        IN  \E caseHandlers \in CaseHandlers(handlers) :
                LET out == BuilderServeHTTP(handlers, caseHandlers, req, requestID)
                IN  /\ served' = "builder"
                    /\ target' = out.target
                    /\ request' = req
                    /\ response' = out.response
                    /\ calls' = out.calls
                    /\ requestID' = out.id
                    /\ sessions' = out.sessions
    /\ UNCHANGED <<object, index, inflight>>
    /\ UNCHANGED schemaVars

\* jrpc.New(object).ServeHTTP(rec, req)
ServeJrpc ==
    /\ served = "none"
    /\ \E req \in JrpcRequests :
        LET out == JrpcServeHTTP(JrpcNew(object, ObjectReceiver), req)
        IN  /\ served' = "jrpc"
            /\ request' = req
            /\ response' = out.response
            /\ calls' = out.calls
    /\ UNCHANGED <<object, index, target, requestID, sessions, inflight>>
    /\ UNCHANGED schemaVars

Next ==
    \/ ServeMethod
    \/ ServeRouter
    \/ ServeBuilder
    \/ ServeJrpc

Spec == Init /\ [][Next]_vars

(***************************************************************************)
(* Concurrent requests.  net/http serves every request on a goroutine of   *)
(* its own, so the steps of the handlers interleave: the lookup, the       *)
(* session factory, the making of the argument vector and the call of the  *)
(* method.  The index and the descriptors are shared by all of them.       *)
(*   frame: [pc, via, req, name, receiver, input, argValues, response,     *)
(*           sessions, called]: the local variables of one handler         *)
(***************************************************************************)
\* the number of requests served at the same time
NumRequests == 2

Requests == 1..NumRequests

\* func (c *Calc) Calc(values []int) (int, error), exposed in both conventions,
\* with a body that returns a nil error and with one that returns an error
ConcObjects ==
    { { [name |-> CalcName, in |-> <<"[]int">>, out |-> <<"int", "error">>, fails |-> fails],
        Skipped, Unexported } : fails \in BOOLEAN }

\* the payloads [1] and [1, 2]
ConcPayloads == {JArr(<<JNum(1)>>), JArr(<<JNum(1), JNum(2)>>)}

\* the requests given to ExposedMethod.ServeHTTP, to Builder and to jrpc.RPC
ConcRequests(via) ==
    CASE via = "method" ->
            { Request("POST", <<"/">>, JArr(<<b>>), "reddec") : b \in ConcPayloads }
      [] via = "builder" ->
            { Request("POST", Slash(CalcName), JArr(<<JArr(<<JNum(1)>>)>>), u) :
                u \in {"reddec", "fail"} }
            \cup { Request("POST", Slash(CalcMixedName),
                           JArr(<<JArr(<<JNum(1), JNum(2)>>)>>), "reddec"),
                   Request("POST", Slash(CalcName), <<"garbage">>, "reddec"),
                   Request("PUT", Slash(CalcName), JArr(<<>>), "reddec") }
      [] via = "jrpc" ->
            { Request("POST", Slash(CalcName), b, "reddec") : b \in ConcPayloads }
            \cup { Request("POST", Slash(CalcName), JStr("hello"), "reddec"),
                   Request("POST", Slash(ToLower(CalcName)), JArr(<<>>), "reddec"),
                   Request("GET", <<"/">>, <<"empty">>, "reddec"),
                   Request("GET", Slash(SwaggerName), <<"empty">>, "reddec"),
                   Request("GET", Slash(CalcName), <<"empty">>, "reddec") }

IdleFrame ==
    [ pc |-> "idle", via |-> "", req |-> NoRequest, name |-> <<>>, receiver |-> Nil,
      input |-> Nil, argValues |-> <<>>, response |-> NoResponse,
      sessions |-> <<>>, called |-> <<>> ]

\* a variant that starts over once after a request it could not decode
MutFinishedRetries(f, resp) ==
    IF resp.code = StatusBadRequest /\ f.response = NoResponse
    THEN [f EXCEPT !.pc = "route", !.response = resp]
    ELSE [f EXCEPT !.pc = "done", !.response = resp]

\* the handler returned after writing resp
Finished(f, resp) == [f EXCEPT !.pc = "done", !.response = resp]

\* the descriptor a frame dispatches to: Builder indexes the zero value of the
\* session type, Router and the tests index the object
FrameHandler(f) ==
    CASE f.via = "builder" -> Index(object, ZeroReceiver)[f.name]
      [] f.via = "method"  -> index[f.name]
      [] f.via = "jrpc"    -> JrpcNew(object, ObjectReceiver)[f.name]

\* a variant with one argument vector for all the requests
MutSlotShared(r) == 1

\* var argValues = make([]reflect.Value, ...) (invoke) and var args =
\* make([]reflect.Value, 0, 3) (call): the vector made by the handler of
\* request r is its own
Slot(r) == r

\* the handler up to the lookup of the method
Routed(f) ==
    CASE f.via = "method" ->
            [f EXCEPT !.pc = "bind", !.name = CalcName, !.receiver = index[CalcName].receiver]
      [] f.via = "builder" ->
            LET caseHandlers == CHOOSE ch \in CaseHandlers(Index(object, ZeroReceiver)) : TRUE
                method == ToLower(TrimSlash(f.req.path))
            IN  IF NotPost(f.req) THEN Finished(f, HeaderOnly(StatusMethodNotAllowed))
                ELSE IF method \notin DOMAIN caseHandlers
                THEN Finished(f, HeaderOnly(StatusNotFound))
                ELSE [f EXCEPT !.pc = "factory", !.name = caseHandlers[method]]
      [] f.via = "jrpc" ->
            LET methods == JrpcNew(object, ObjectReceiver)
                method == PathBase(f.req.path)
                found == JrpcLookup(methods, method)
            IN  IF f.req.method = "GET" /\ (method = <<>> \/ method = <<"/">>)
                THEN Finished(f, [code |-> StatusOK, ctype |-> "text/html",
                                  body |-> <<"page">>])
                ELSE IF f.req.method = "GET" /\ method = SwaggerName
                THEN Finished(f, [code |-> StatusOK, ctype |-> "application/json",
                                  body |-> <<"schema">>])
                ELSE IF NotPost(f.req) THEN Finished(f, HeaderOnly(StatusMethodNotAllowed))
                ELSE IF found = {} THEN Finished(f, HeaderOnly(StatusNotFound))
                ELSE LET name == CHOOSE n \in found : TRUE
                         input == IF ReadsBody(methods[name]) THEN DecodeRaw(f.req.body)
                                  ELSE Ok(Nil)
                     IN  IF ~input.ok
                         THEN Finished(f, [code |-> StatusBadRequest, ctype |-> "text/plain",
                                           body |-> Text(input.err)])
                         ELSE [f EXCEPT !.pc = "bind", !.name = name, !.input = input.v]

\* value, err := factory(request), and the receiver made of the value
Produced(f, session) ==
    IF FactoryFailed(session)
    THEN [Finished(f, [code |-> StatusInternalServerError, ctype |-> "",
                       body |-> Text(session.err[2])])
            EXCEPT !.sessions = Append(@, session)]
    ELSE [f EXCEPT !.pc = "bind", !.sessions = Append(@, session),
                   !.receiver = ReceiverOf(FrameHandler(f), session.value)]

\* the argument vector of the frame's call, or the response of the failure
Bound(f) ==
    LET em == FrameHandler(f)
    IN  IF f.via = "jrpc"
        THEN LET args == callArgs(em, f.req.ctx, f.input)
             IN  IF args.ok THEN [ok |-> TRUE, v |-> args.v, response |-> NoResponse]
                 ELSE [ok |-> FALSE, v |-> <<>>,
                       response |-> JrpcResponse(em, [res |-> Nil, calls |-> <<>>,
                                                      err |-> <<"error", args.err>>])]
        ELSE LET dec == DecodeParams(f.req.body)
             IN  IF ~dec.ok
                 THEN [ok |-> FALSE, v |-> <<>>,
                       response |-> HttpError(dec.err, StatusBadRequest)]
                 ELSE IF NotEnough(Len(dec.v), Len(em.argTypes))
                 THEN [ok |-> FALSE, v |-> <<>>,
                       response |-> HttpError("not enough arguments, expected "
                                                 \o ToString(Len(em.argTypes)),
                                              StatusBadRequest)]
                 ELSE LET bound == BindArgs(em.argTypes, dec.v)
                      IN  IF ~bound.ok
                          THEN [ok |-> FALSE, v |-> <<>>,
                                response |-> HttpError(bound.err, StatusBadRequest)]
                          ELSE [ok |-> TRUE, response |-> NoResponse,
                                v |-> ArgValues(em, f.receiver, f.req, bound.v)]

\* method.Func.Call(argValues) and the response written after it
Invoked(f, argValues) ==
    LET em == FrameHandler(f)
    IN  IF f.via = "jrpc"
        THEN LET out == callReturn(em, argValues)
             IN  [Finished(f, JrpcResponse(em, out)) EXCEPT !.called = out.calls]
        ELSE [Finished(f, InvokeResponse(em, Call(em.method, argValues)))
                EXCEPT !.called = <<[name |-> em.method.name, args |-> argValues]>>]

InitConc ==
    /\ object \in ConcObjects
    /\ index = Index(object, ObjectReceiver)
    /\ served = "none"
    /\ target = <<>>
    /\ request = NoRequest
    /\ response = NoResponse
    /\ calls = <<>>
    /\ requestID = 0
    /\ sessions = <<>>
    /\ inflight = [r \in Requests |-> IdleFrame]
    /\ api = <<>> /\ pending = {} /\ sb = <<>> /\ schema = <<>> /\ returned = FALSE

\* the server accepts a request and starts its handler
Accept ==
    /\ \E r \in Requests :
        /\ inflight[r].pc = "idle"
        /\ \A q \in 1..(r - 1) : inflight[q].pc # "idle"
        /\ \E via \in {"method", "builder", "jrpc"} :
            \E req \in ConcRequests(via) :
                inflight' = [inflight EXCEPT ![r] =
                                [IdleFrame EXCEPT !.pc = "route", !.via = via, !.req = req]]
    /\ UNCHANGED <<object, index, served, target, request, response, calls,
                   requestID, sessions>>
    /\ UNCHANGED schemaVars

\* the handler checks the HTTP method and looks the method up
Route ==
    /\ \E r \in Requests :
        /\ inflight[r].pc = "route"
        /\ inflight' = [inflight EXCEPT ![r] = Routed(inflight[r])]
    /\ UNCHANGED <<object, index, served, target, request, response, calls,
                   requestID, sessions>>
    /\ UNCHANGED schemaVars

\* Builder's handler asks the factory for the session of the request
Factory ==
    /\ \E r \in Requests :
        /\ inflight[r].pc = "factory"
        /\ LET session == newSession(inflight[r].req, requestID)
           IN  /\ requestID' = session.id
               /\ sessions' = Append(sessions, session)
               /\ inflight' = [inflight EXCEPT ![r] = Produced(inflight[r], session)]
    /\ UNCHANGED <<object, index, served, target, request, response, calls>>
    /\ UNCHANGED schemaVars

\* the handler decodes the body and fills its argument vector
Bind ==
    /\ \E r \in Requests :
        /\ inflight[r].pc = "bind"
        /\ LET bound == Bound(inflight[r])
           IN  inflight' =
                 IF bound.ok
                 THEN [inflight EXCEPT ![r].pc = "call", ![Slot(r)].argValues = bound.v]
                 ELSE [inflight EXCEPT ![r] = Finished(inflight[r], bound.response)]
    /\ UNCHANGED <<object, index, served, target, request, response, calls,
                   requestID, sessions>>
    /\ UNCHANGED schemaVars

\* the handler calls the method with its argument vector and answers
Invoke ==
    /\ \E r \in Requests :
        /\ inflight[r].pc = "call"
        /\ inflight' = [inflight EXCEPT ![r] =
                          Invoked(inflight[r], inflight[Slot(r)].argValues)]
    /\ UNCHANGED <<object, index, served, target, request, response, calls,
                   requestID, sessions>>
    /\ UNCHANGED schemaVars

NextConc ==
    \/ Accept
    \/ Route
    \/ Factory
    \/ Bind
    \/ Invoke

SpecConc == InitConc /\ [][NextConc]_vars

(***************************************************************************)
(* schema.OpenAPI: the synthesis of the schema document.                   *)
(*   Go types (reflect.Type): <<"int">>, <<"uint8">>, <<"string">>, ...    *)
(*     <<"ptr", T>>, <<"slice", T>>, <<"array", n, T>>, <<"map", K, V>>,   *)
(*     <<"interface">>, <<"struct", fields>> (no name) and                 *)
(*     <<"named", pkg, name>>, a declared type whose underlying type is    *)
(*     Decls[<<pkg, name>>]                                                *)
(*   field (reflect.StructField): [name, pkgPath ("" when exported), json  *)
(*     (Tag.Get("json")), type]                                            *)
(*   maps (Go map[K]V): functions, <<>> the empty one                      *)
(***************************************************************************)
\* the deepest nesting of calls of walk and walkStruct the goroutine's stack
\* holds; a pass that needs more ends with a stack overflow
MaxDepth == 16

\* the most methods an index given to OpenAPI holds
MaxMethods == 2

BasicKinds ==
    { "int", "int64", "int32", "int16", "int8", "uint", "uint64", "uint32", "uint16",
      "uint8", "string", "bool", "float32", "float64" }

Field(name, json, type) == [name |-> name, pkgPath |-> "", json |-> json, type |-> type]

Bytes == <<"slice", <<"uint8">>>>

\* the declared types of the model: Account and User of the tests; time.Time
\* and time.Duration; a struct with tags that have an option, a map and an
\* unexported field; two types that refer to each other, one with a map of a
\* third; types of different packages with one name; and the types of the
\* handler's test methods: SomeObj, context.Context and error
Decls ==
    <<"schema_test", "Account">> :>
        <<"struct", << Field("Logo", "", Bytes),
                       Field("Link", "", <<"struct", << Field("Domain", "", <<"string">>),
                                                        Field("Path", "", <<"string">>) >> >>),
                       Field("Cents", "", <<"uint">>),
                       Field("SubAccounts", "",
                             <<"slice", <<"ptr", <<"named", "schema_test", "Account">>>>>>) >> >>
    @@ <<"schema_test", "User">> :>
        <<"struct", << Field("Name", "user_name", <<"string">>),
                       Field("Year", "", <<"uint16">>),
                       Field("Password", "-", <<"string">>),
                       Field("Address", "",
                             <<"struct", << Field("Country", "", <<"string">>),
                                            Field("City", "", <<"string">>),
                                            Field("ZIP", "", <<"int">>) >> >>),
                       Field("Accounts", "",
                             <<"slice", <<"ptr", <<"named", "schema_test", "Account">>>>>>),
                       Field("Primary", "", <<"named", "schema_test", "Account">>),
                       Field("CreatedAt", "", <<"named", "time", "Time">>),
                       Field("TTL", "", <<"named", "time", "Duration">>),
                       Field("Registered", "", <<"bool">>),
                       Field("Age", "", <<"int8">>),
                       Field("Status", "", <<"uint8">>) >> >>
    @@ <<"time", "Time">> :>
        <<"struct", << [name |-> "wall", pkgPath |-> "time", json |-> "",
                        type |-> <<"uint64">>] >> >>
    @@ <<"time", "Duration">> :> <<"int64">>
    @@ <<"crm", "Contact">> :>
        <<"struct", << Field("Email", "email,omitempty", <<"string">>),
                       Field("Nick", ",omitempty", <<"string">>),
                       Field("Labels", "", <<"map", <<"string">>, <<"string">>>>),
                       [name |-> "secret", pkgPath |-> "crm", json |-> "",
                        type |-> <<"string">>] >> >>
    @@ <<"graph", "Node">> :>
        <<"struct", << Field("Edges", "", <<"slice", <<"named", "graph", "Edge">>>>),
                       Field("Marks", "", <<"map", <<"string">>,
                                            <<"named", "graph", "Mark">>>>) >> >>
    @@ <<"graph", "Mark">> :>
        <<"struct", << Field("Colour", "", <<"string">>) >> >>
    @@ <<"graph", "Edge">> :>
        <<"struct", << Field("To", "", <<"ptr", <<"named", "graph", "Node">>>>),
                       Field("Sum", "", <<"array", 4, <<"uint8">>>>) >> >>
    @@ <<"shop", "Item">> :>
        <<"struct", << Field("ID", "", <<"int">>) >> >>
    @@ <<"shop", "Item2">> :>
        <<"struct", << Field("Code", "", <<"string">>) >> >>
    @@ <<"stock", "Item">> :>
        <<"struct", << Field("ID", "", <<"int">>), Field("Count", "", <<"int">>) >> >>
    @@ <<"depot", "Item">> :>
        <<"struct", << Field("SKU", "", <<"string">>), Field("Count", "", <<"int">>) >> >>
    @@ <<"rpc_test", "SomeObj">> :>
        <<"struct", << Field("Hello", "", <<"string">>) >> >>
    @@ <<"context", "Context">> :> <<"interface">>
    @@ <<"", "error">> :> <<"interface">>

\* the type a declared type is made of; a type without a name is its own
Underlying(t) == IF t[1] = "named" THEN Decls[<<t[2], t[3]>>] ELSE t

\* t.Kind()
Kind(t) == Underlying(t)[1]

\* t.Elem() of a pointer, a slice or an array
Elem(t) == IF Kind(t) = "array" THEN Underlying(t)[3] ELSE Underlying(t)[2]

\* t.Field(0) .. t.Field(t.NumField()-1) of a struct
Fields(t) == Underlying(t)[2]

\* refOf: schemaRef{pkg: t.PkgPath(), name: t.Name()}
refOf(t) ==
    IF t[1] = "named" THEN <<t[2], t[3]>>
    ELSE IF t[1] \in BasicKinds THEN <<"", t[1]>>
    ELSE <<"", "">>

\* the zero value of Type, and the map insertion m[k] = v
ZeroType ==
    [ type |-> "", format |-> "", ref |-> "", items |-> <<>>, properties |-> <<>>,
      minimum |-> <<>>, maximum |-> 0, prefixItems |-> <<>>, minItems |-> 0,
      maxItems |-> 0, description |-> "", name |-> "" ]

Put(m, k, v) == (k :> v) @@ m

\* schemaDefaults, by the kind (Base64 and Any by their field names)
Defaults ==
    LET integer == [ZeroType EXCEPT !.type = "integer"]
        zero == <<0>>
    IN  [ int     |-> integer,
          int64   |-> [integer EXCEPT !.format = "int64"],
          int32   |-> [integer EXCEPT !.format = "int32"],
          int16   |-> [integer EXCEPT !.maximum = 32767],
          int8    |-> [integer EXCEPT !.maximum = 127],
          uint    |-> [integer EXCEPT !.minimum = zero],
          uint64  |-> [integer EXCEPT !.format = "int64", !.minimum = zero],
          uint32  |-> [integer EXCEPT !.format = "int32", !.minimum = zero],
          uint16  |-> [integer EXCEPT !.minimum = zero, !.maximum = 65535],
          uint8   |-> [integer EXCEPT !.minimum = zero, !.maximum = 255],
          string  |-> [ZeroType EXCEPT !.type = "string"],
          bool    |-> [ZeroType EXCEPT !.type = "boolean"],
          float32 |-> [ZeroType EXCEPT !.type = "number", !.format = "float"],
          float64 |-> [ZeroType EXCEPT !.type = "number", !.format = "double"],
          Base64  |-> [ZeroType EXCEPT !.type = "string", !.format = "byte"],
          Any     |-> ZeroType ]

\* the schemaBuilder OpenAPI starts with; overflow: the stack was exhausted
NewBuilder ==
    [ components |-> <<>>,
      names      |-> <<>>,
      hooks      |->
          <<"time", "Time">> :> [ZeroType EXCEPT !.type = "string", !.format = "date-time"]
          @@ <<"time", "Duration">> :>
                [ZeroType EXCEPT !.type = "string",
                                 !.description = "duration with unit prefix"]
          @@ <<"github.com/shopspring/decimal", "Decimal">> :>
                [ZeroType EXCEPT !.type = "string",
                                 !.description = "precise representation of decimal value"],
      overflow   |-> FALSE ]

\* Define(pkg, name, definition), applied to the builder
Define(builder, pkg, name, definition) ==
    [builder EXCEPT !.hooks = Put(@, <<pkg, name>>, definition)]

\* OpenAPI: for _, opt := range options { opt(&sb) }, for no option, for a
\* definition of Account as a string and for one that replaces the hook of
\* time.Time
Builders ==
    { NewBuilder,
      Define(NewBuilder, "schema_test", "Account",
             [ZeroType EXCEPT !.type = "string", !.description = "account number"]),
      Define(NewBuilder, "time", "Time",
             [ZeroType EXCEPT !.type = "integer", !.format = "int64"]) }

\* a variant that knows no hook
MutHookedNever(builder, t) == FALSE

\* mock, exists := sb.hooks[refOf(t)]
Hooked(builder, t) == refOf(t) \in DOMAIN builder.hooks

\* a variant that takes no sequence for bytes
MutIsBase64Never(t) == FALSE

\* case reflect.Slice: if t.Elem().Kind() == reflect.Uint8
IsBase64(t) == Kind(t) = "slice" /\ Kind(Elem(t)) = "uint8"

\* a variant that never finds a type in the components
MutRegisteredNever(builder, ref) == FALSE

\* parsed, ok := sb.components[ref]
Registered(builder, ref) == ref \in DOMAIN builder.components

\* a call of the builder returns a node and leaves the builder changed: what
\* follows the call, Then, goes on with both, unless the call exhausted the
\* stack, which ends the pass
AndThen(called, Then(_, _)) ==
    IF called.sb.overflow THEN called ELSE Then(called.sb, called.type)

RECURSIVE walk(_, _, _), walkStruct(_, _, _), walkFields(_, _, _, _, _)

\* schemaBuilder.walk: [sb, type]
walk(builder, t, depth) ==
    IF builder.overflow \/ depth > MaxDepth
    THEN [sb |-> [builder EXCEPT !.overflow = TRUE], type |-> Defaults.Any]
    ELSE IF Hooked(builder, t)
    THEN [sb |-> builder, type |-> builder.hooks[refOf(t)]]
    ELSE CASE Kind(t) = "ptr" -> walk(builder, Elem(t), depth + 1)
           [] Kind(t) \in BasicKinds -> [sb |-> builder, type |-> Defaults[Kind(t)]]
           [] Kind(t) = "slice" ->
                IF IsBase64(t) THEN [sb |-> builder, type |-> Defaults.Base64]
                ELSE AndThen(walk(builder, Elem(t), depth + 1),
                          LAMBDA after, items :
                            [sb |-> after,
                             type |-> [ZeroType EXCEPT !.type = "array", !.items = items]])
           [] Kind(t) = "array" ->
                AndThen(walk(builder, Elem(t), depth + 1),
                     LAMBDA after, items :
                       [sb |-> after,
                        type |-> [ZeroType EXCEPT !.type = "array", !.items = items,
                                                  !.minItems = Underlying(t)[2],
                                                  !.maxItems = Underlying(t)[2]]])
           [] Kind(t) = "struct" ->
                AndThen(walkStruct(builder, t, depth + 1),
                     LAMBDA after, info :
                       IF refOf(t)[2] = "" THEN [sb |-> after, type |-> info]
                       ELSE [sb |-> after,
                             type |-> [ZeroType EXCEPT
                                         !.ref = "#/components/schemas/" \o info.name]])
           [] OTHER -> [sb |-> builder, type |-> Defaults.Any]

\* schemaBuilder.walkStruct: [sb, type].  res is registered before the fields
\* are walked; the properties the loop adds to it are seen through
\* sb.components[ref] as well, which holds the same *Type
walkStruct(builder, t, depth) ==
    LET ref == refOf(t)
        anonymous == ref[2] = ""
    IN  IF ~anonymous /\ Registered(builder, ref)
        THEN [sb |-> builder, type |-> builder.components[ref]]
        ELSE LET cardinality == IF ref[2] \in DOMAIN builder.names
                                THEN builder.names[ref[2]] ELSE 0
                 n == Len(Fields(t))
                 res == [ZeroType EXCEPT
                           !.type = "object",
                           !.name = IF cardinality = 0 THEN ref[2]
                                    ELSE ref[2] \o ToString(n)]
                 begun == [builder EXCEPT
                             !.names = Put(@, ref[2], cardinality + 1),
                             !.components = IF anonymous THEN @ ELSE Put(@, ref, res)]
             IN  AndThen(walkFields(begun, t, res, 1, depth),
                      LAMBDA after, walked :
                        [sb |-> IF anonymous \/ after.overflow THEN after
                                ELSE [after EXCEPT !.components = Put(@, ref, walked)],
                         type |-> walked])

\* walkStruct: for i := 0; i < n; i++ over the fields, from field i on
walkFields(builder, t, res, i, depth) ==
    IF i > Len(Fields(t)) THEN [sb |-> builder, type |-> res]
    ELSE LET f == Fields(t)[i]
             value == IF f.json = "" THEN f.name ELSE f.json
         IN  IF f.pkgPath # "" \/ f.json = "-"
             THEN walkFields(builder, t, res, i + 1, depth)
             ELSE AndThen(walk(builder, f.type, depth + 1),
                       LAMBDA after, property :
                         walkFields(after, t,
                                    [res EXCEPT !.properties = Put(@, value, property)],
                                    i + 1, depth))

\* walkMethodArgs: for _, arg := range method.Args(), from argument i on
RECURSIVE walkArgs(_, _, _, _)
walkArgs(builder, args, i, prefixItems) ==
    IF i > Len(args) THEN [sb |-> builder, type |-> prefixItems]
    ELSE AndThen(walk(builder, args[i], 1),
              LAMBDA after, item : walkArgs(after, args, i + 1, Append(prefixItems, item)))

\* the reflect.Type of a parameter or a result of the handler's test methods
ReflectType(t) ==
    CASE t = "int"     -> <<"int">>
      [] t = "string"  -> <<"string">>
      [] t = "[]int"   -> <<"slice", <<"int">>>>
      [] t = "SomeObj" -> <<"named", "rpc_test", "SomeObj">>
      [] t = "Context" -> <<"named", "context", "Context">>
      [] t = "error"   -> <<"named", "", "error">>

\* ExposedMethod.Args(): the argument types the dispatcher binds from the
\* payload, argTypes.  A descriptor with a response field holds them as
\* reflect types already
Args(method) ==
    IF "response" \in DOMAIN method THEN method.argTypes
    ELSE [i \in DOMAIN method.argTypes |-> ReflectType(method.argTypes[i])]

\* ExposedMethod.Response(): the type of the first result
Response(method) ==
    IF "response" \in DOMAIN method THEN method.response
    ELSE ReflectType(method.method.out[1])

\* a variant that leaves the number of items open
MutWalkMethodArgsOpen(builder, method) ==
    AndThen(walkArgs(builder, Args(method), 1, <<>>),
         LAMBDA after, prefixItems :
           [sb |-> after,
            type |-> [ZeroType EXCEPT !.type = "array",
                                      !.items = Defaults.Any,
                                      !.prefixItems = prefixItems]])

\* schemaBuilder.walkMethodArgs: [sb, type]
walkMethodArgs(builder, method) ==
    AndThen(walkArgs(builder, Args(method), 1, <<>>),
         LAMBDA after, prefixItems :
           [sb |-> after,
            type |-> [ZeroType EXCEPT !.type = "array",
                                      !.minItems = Len(Args(method)),
                                      !.maxItems = Len(Args(method)),
                                      !.items = Defaults.Any,
                                      !.prefixItems = prefixItems]])

\* build: the body of for method, info := range index: [sb, type], the type
\* being the path item of the method
Endpoint(builder, method, info) ==
    AndThen(walkMethodArgs(builder, info),
         LAMBDA walked, body :
           AndThen(IF ~info.hasResponse THEN [sb |-> walked, type |-> Defaults.Any]
                ELSE walk(walked, Response(info), 1),
                LAMBDA after, ok :
                  [sb |-> after,
                   type |-> [operationId |-> method, requestBody |-> body, ok |-> ok,
                             badRequest |-> Defaults.string,
                             internalError |-> Defaults.string]]))

\* a variant that files every component under the bare name of its type
MutComponentSchemasBareNames(components) ==
    LET refs == { ref \in DOMAIN components : ref[2] # "" }
        names == { ref[2] : ref \in refs }
    IN  { [k \in names |-> components[last[k]]] :
            last \in { w \in [names -> refs] : \A k \in names : w[k][2] = k } }

\* build: for ref, component := range sb.components { if ref.name == "" {
\* continue }; schema.Components.Schemas[component.Name] = component }.  Of two
\* components with one name the one written last stays, and the order of a
\* range over a map is not fixed: every map the loop can leave
ComponentSchemas(components) ==
    LET refs == { ref \in DOMAIN components : ref[2] # "" }
        names == { components[ref].name : ref \in refs }
    IN  { [k \in names |-> components[last[k]]] :
            last \in { w \in [names -> refs] : \A k \in names : components[w[k]].name = k } }

\* the methods of the indexes given to OpenAPI, as Args(), HasResponse() and
\* Response() describe them: Register, GetUser and RemoveAllUsers of the test,
\* methods over the other declared types (Invite takes a Contact), and STOCK,
\* whose name differs from Stock in case only
SchemaMethods ==
    <<"R","e","g","i","s","t","e","r">> :>
        [argTypes |-> << <<"ptr", <<"named", "schema_test", "User">>>> >>,
         hasResponse |-> TRUE, response |-> <<"int64">>]
    @@ <<"G","e","t","U","s","e","r">> :>
        [argTypes |-> << <<"int64">> >>,
         hasResponse |-> TRUE, response |-> <<"ptr", <<"named", "schema_test", "User">>>>]
    @@ <<"R","e","m","o","v","e","A","l","l","U","s","e","r","s">> :>
        [argTypes |-> <<>>, hasResponse |-> FALSE, response |-> <<"interface">>]
    @@ <<"U","p","l","o","a","d">> :>
        [argTypes |-> << Bytes, <<"array", 4, <<"uint8">>>>, <<"slice", <<"int">>>> >>,
         hasResponse |-> FALSE, response |-> <<"interface">>]
    @@ <<"L","i","n","k">> :>
        [argTypes |-> << <<"ptr", <<"named", "graph", "Node">>>> >>,
         hasResponse |-> TRUE, response |-> <<"named", "graph", "Edge">>]
    @@ <<"S","e","l","l">> :>
        [argTypes |-> << <<"named", "shop", "Item">> >>,
         hasResponse |-> TRUE, response |-> <<"named", "stock", "Item">>]
    @@ <<"S","t","o","c","k">> :>
        [argTypes |-> << <<"named", "stock", "Item">> >>,
         hasResponse |-> FALSE, response |-> <<"interface">>]
    @@ <<"S","t","o","r","e">> :>
        [argTypes |-> << <<"named", "depot", "Item">> >>,
         hasResponse |-> FALSE, response |-> <<"interface">>]
    @@ <<"L","a","b","e","l">> :>
        [argTypes |-> << <<"named", "shop", "Item2">> >>,
         hasResponse |-> FALSE, response |-> <<"interface">>]
    @@ <<"I","n","v","i","t","e">> :>
        [argTypes |-> << <<"named", "crm", "Contact">> >>,
         hasResponse |-> FALSE, response |-> <<"interface">>]
    @@ <<"S","T","O","C","K">> :>
        [argTypes |-> <<>>, hasResponse |-> TRUE, response |-> <<"int">>]

\* the indexes: up to MaxMethods of the methods, and rpc.Index of every test
\* object of the handler
SchemaIndexes ==
    { [m \in names |-> SchemaMethods[m]] :
        names \in { ns \in SUBSET DOMAIN SchemaMethods : Cardinality(ns) <= MaxMethods } }
    \cup { Index(obj, ObjectReceiver) : obj \in Objects }

\* OpenAPI(index): the builder is made and build starts
InitSchema ==
    /\ api \in SchemaIndexes
    /\ pending = DOMAIN api
    /\ sb \in Builders
    /\ schema = [openapi |-> "3.1.0", paths |-> <<>>, components |-> <<>>]
    /\ returned = FALSE
    /\ object = {} /\ index = <<>> /\ served = "none" /\ target = <<>>
    /\ request = NoRequest /\ response = NoResponse /\ calls = <<>>
    /\ requestID = 0 /\ sessions = <<>> /\ inflight = <<>>

\* build: one turn of the range over the index, on any method not visited yet
VisitMethod ==
    /\ ~returned
    /\ ~sb.overflow
    /\ \E method \in pending :
        \E built \in {Endpoint(sb, method, api[method])} :
            /\ sb' = built.sb
            /\ schema' = [schema EXCEPT
                            !.paths = Put(@, Slash(ToLower(method)), built.type)]
            /\ pending' = pending \ {method}
    /\ UNCHANGED <<api, returned>>
    /\ UNCHANGED handlerVars

\* build: the components are copied into the schema, which is returned
Assemble ==
    /\ ~returned
    /\ ~sb.overflow
    /\ pending = {}
    /\ \E schemas \in ComponentSchemas(sb.components) :
        schema' = [schema EXCEPT !.components = schemas]
    /\ returned' = TRUE
    /\ UNCHANGED <<api, pending, sb>>
    /\ UNCHANGED handlerVars

NextSchema ==
    \/ VisitMethod
    \/ Assemble

SpecSchema == InitSchema /\ [][NextSchema]_vars

(***************************************************************************)
(* The vocabulary of the properties: what a declared method is, stated on  *)
(* its declaration, and which method a served request was dispatched to.   *)
(***************************************************************************)
DeclaredMethod(name) == CHOOSE m \in object : m.name = name

ContextFirst(m) == Len(m.in) >= 1 /\ m.in[1] = "Context"

DataParams(m) == IF ContextFirst(m) THEN Tail(m.in) ELSE m.in

ProducesError(m) == Len(m.out) >= 1 /\ m.out[Len(m.out)] = "error"

ReturnsError(m) == ProducesError(m) /\ m.fails

\* no results, or a single error result
NoValueResult(m) == m.out = <<>> \/ m.out = <<"error">>

\* the receiver the handler that served the request invokes methods on
ServedReceiver ==
    IF served = "builder" THEN <<"session", request.user, 1>> ELSE ObjectReceiver

\* the request reached ExposedMethod.invoke of the method called name
ReachedPositional(name) ==
    /\ name \in DOMAIN index
    /\ \/ served = "method" /\ target = name
       \/ /\ served = "router"
          /\ request.method = "POST"
          /\ request.path = Slash(ToLower(name))
       \/ /\ served = "builder"
          /\ request.method = "POST"
          /\ ToLower(TrimSlash(request.path)) = ToLower(name)
          /\ target = name
          /\ request.user # "fail"

\* the request reached the method called name through jrpc.RPC
ReachedJrpc(name) ==
    /\ name \in DOMAIN index
    /\ Len(DataParams(DeclaredMethod(name))) <= 1
    /\ served = "jrpc"
    /\ request.method = "POST"
    /\ PathBase(request.path) = name

\* the data arguments of a recorded call of m
DataArgsOf(c, m) == SubSeq(c.args, (IF ContextFirst(m) THEN 3 ELSE 2), Len(c.args))

Decoded(e, T) == [i \in 1..Len(T) |-> Unmarshal(e[i], T[i]).v]

AllDecode(e, T) == \A i \in 1..Len(T) : Unmarshal(e[i], T[i]).ok

FirstFailing(e, T) ==
    CHOOSE i \in 1..Len(T) :
        /\ ~Unmarshal(e[i], T[i]).ok
        /\ \A k \in 1..(i - 1) : Unmarshal(e[k], T[k]).ok

(***************************************************************************)
(* C1                                                                      *)
(***************************************************************************)
\* C1: the index holds a method of the object if and only if the method is
\* exported and has 0, 1 or 2 results, the second of two being an error; a
\* method with a single error result is indexed with hasResponse false and
\* hasError true; the index holds nothing else.
C1_IndexMembership ==
    /\ \A m \in object :
          m.name \in DOMAIN index <=>
              /\ IsExported(m.name)
              /\ Len(m.out) \in {0, 1, 2}
              /\ Len(m.out) = 2 => m.out[2] = "error"
    /\ DOMAIN index \subseteq {m.name : m \in object}
    /\ \A m \in object :
          m.out = <<"error">> /\ IsExported(m.name) =>
              /\ m.name \in DOMAIN index
              /\ ~index[m.name].hasResponse
              /\ index[m.name].hasError

\* an object with Skipped() (int, int) and unexported() left out and a method
\* with a single error result indexed
C1_Witness ==
    /\ \E m \in object : m.out = <<"int", "int">> /\ IsExported(m.name)
                          /\ m.name \notin DOMAIN index
    /\ \E m \in object : ~IsExported(m.name) /\ m.out = <<>> /\ m.name \notin DOMAIN index
    /\ \E m \in object : m.out = <<"error">> /\ m.name \in DOMAIN index
                          /\ ~index[m.name].hasResponse

(***************************************************************************)
(* C2                                                                      *)
(***************************************************************************)
\* C2: an indexed method whose first declared parameter is a context has
\* hasContext true and argTypes equal to the parameters after the context, in
\* declaration order; when a request is dispatched to it, the call gets the
\* receiver, then the request's own context, then decoded element i as data
\* argument i.
C2_ContextFirst ==
    /\ \A name \in DOMAIN index :
          LET m == DeclaredMethod(name)
          IN  ContextFirst(m) =>
                /\ index[name].hasContext
                /\ index[name].argTypes = Tail(m.in)
    /\ \A name \in DOMAIN index :
          LET m == DeclaredMethod(name)
              T == Tail(m.in)
          IN  (ReachedPositional(name) /\ ContextFirst(m) /\ calls # <<>>) =>
                /\ Len(calls) = 1
                /\ calls[1].name = name
                /\ Len(calls[1].args) = 2 + Len(T)
                /\ calls[1].args[1] = ServedReceiver
                /\ calls[1].args[2] = request.ctx
                /\ request.body[1] = "arr" \/ T = <<>>
                /\ \A i \in 1..Len(T) :
                      calls[1].args[2 + i] = Unmarshal(request.body[2][i], T[i]).v

\* Foo1(ctx, bar int, baz SomeObj) called with [1, {"Hello": "hello"}]
C2_Witness ==
    /\ served = "method"
    /\ DeclaredMethod(target).in = <<"Context", "int", "SomeObj">>
    /\ request.body = JArr(<<JNum(1), SomeObjHello>>)
    /\ Len(calls) = 1
    /\ calls[1].args = <<ObjectReceiver, RequestCtx, <<"int", 1>>, <<"SomeObj", "hello">>>>

(***************************************************************************)
(* C3                                                                      *)
(***************************************************************************)
\* C3: in the positional convention, an array with fewer elements than the
\* method has data arguments is answered 400 without a call; an array with more
\* elements, the first n of which decode, is not answered 400 and the method is
\* called once with the first n elements decoded (also for n = 0).
C3_Arity ==
    \A name \in DOMAIN index :
        (ReachedPositional(name) /\ request.body[1] = "arr") =>
            LET m == DeclaredMethod(name)
                T == DataParams(m)
                e == request.body[2]
            IN  /\ Len(e) < Len(T) =>
                      response.code = StatusBadRequest /\ calls = <<>>
                /\ (Len(e) > Len(T) /\ AllDecode(e, T)) =>
                      /\ response.code # StatusBadRequest
                      /\ Len(calls) = 1
                      /\ calls[1].name = name
                      /\ DataArgsOf(calls[1], m) = Decoded(e, T)

\* Calc(a, b int) called with [1, 2, "hello"]: the third element is ignored
C3_Witness ==
    /\ served = "method"
    /\ DeclaredMethod(target).in = <<"int", "int">>
    /\ request.body = JArr(<<JNum(1), JNum(2), JStr("hello")>>)
    /\ Len(calls) = 1
    /\ calls[1].args = <<ObjectReceiver, <<"int", 1>>, <<"int", 2>>>>
    /\ response.code # StatusBadRequest

(***************************************************************************)
(* C4                                                                      *)
(***************************************************************************)
\* C4: in the positional convention, a body that is no JSON array (nor null),
\* or an array one of whose first n elements does not decode into its argument
\* type, is answered 400 without a call; the response carries the error of the
\* first element that does not decode.
C4_DecodeFailure ==
    \A name \in DOMAIN index :
        ReachedPositional(name) =>
            LET m == DeclaredMethod(name)
                T == DataParams(m)
            IN  /\ request.body[1] \notin {"arr", "null"} =>
                      response.code = StatusBadRequest /\ calls = <<>>
                /\ ( /\ request.body[1] = "arr"
                     /\ Len(request.body[2]) >= Len(T)
                     /\ ~AllDecode(request.body[2], T) ) =>
                      LET e == request.body[2]
                          i == FirstFailing(e, T)
                      IN  /\ response.code = StatusBadRequest
                          /\ calls = <<>>
                          /\ response.body = Text(Unmarshal(e[i], T[i]).err \o "\n")

\* Foo2(bar int, baz string) called with ["hello", 1]: both elements fail and
\* the response names the first
C4_Witness ==
    /\ served = "method"
    /\ DeclaredMethod(target).in = <<"int", "string">>
    /\ request.body = JArr(<<JStr("hello"), JNum(1)>>)
    /\ response.code = StatusBadRequest
    /\ response.body = Text(TypeError(JStr("hello"), "int") \o "\n")
    /\ calls = <<>>

(***************************************************************************)
(* C5                                                                      *)
(***************************************************************************)
\* C5: whenever a method whose last result is an error was called and returned
\* a non-nil error, the response is 500 and its body is the error's message and
\* nothing else, in both conventions.
C5_ApplicationError ==
    \A name \in DOMAIN index :
        ( /\ ReachedPositional(name) \/ ReachedJrpc(name)
          /\ calls # <<>>
          /\ ReturnsError(DeclaredMethod(name)) ) =>
            /\ response.code = StatusInternalServerError
            /\ response.body = Text("fail")

\* a method returning (int, error) with a non-nil error was called
C5_Witness ==
    /\ served = "method"
    /\ DeclaredMethod(target).out = <<"int", "error">>
    /\ DeclaredMethod(target).fails
    /\ Len(calls) = 1
    /\ response.code = StatusInternalServerError
    /\ response.body = Text("fail")

(***************************************************************************)
(* C6                                                                      *)
(***************************************************************************)
\* a method without a value result was called and returned no error
SucceededWithoutValue(name) ==
    /\ ReachedPositional(name) \/ ReachedJrpc(name)
    /\ calls # <<>>
    /\ NoValueResult(DeclaredMethod(name))
    /\ ~ReturnsError(DeclaredMethod(name))

\* C6 as stated: a successful dispatch of a method without a value result
\* answers success with an empty body in both conventions.
C6_EmptyBodyBothConventions ==
    \A name \in DOMAIN index :
        SucceededWithoutValue(name) =>
            /\ response.code \in {StatusOK, StatusNoContent}
            /\ response.body = NoBody

\* C6 amended: a successful dispatch of a method without a value result answers
\* success; the body is empty (204) in the single-payload convention and the
\* JSON text null in the positional convention (200).
C6_NoValueResponse ==
    \A name \in DOMAIN index :
        SucceededWithoutValue(name) =>
            IF served = "jrpc"
            THEN response.code = StatusNoContent /\ response.body = NoBody
            ELSE response.code = StatusOK /\ response.body = <<"json", JNull>>

\* Foo3() error returning nil, called in the positional convention
C6_Witness ==
    /\ served = "method"
    /\ DeclaredMethod(target).out = <<"error">>
    /\ ~DeclaredMethod(target).fails
    /\ Len(calls) = 1
    /\ response.code = StatusOK
    /\ response.body = <<"json", JNull>>

(***************************************************************************)
(* C7                                                                      *)
(***************************************************************************)
\* C7: for Calc(a, b int) int and a body [x, y] of two integers, the direct
\* handler and the Router at /calc answer 200 with the JSON number x + y, and
\* Calc is called exactly once with a = x and b = y.
C7_RoundTrip ==
    \A x \in Nums, y \in Nums :
        ( /\ CalcName \in DOMAIN index
          /\ DeclaredMethod(CalcName).in = <<"int", "int">>
          /\ DeclaredMethod(CalcName).out = <<"int">>
          /\ request.body = JArr(<<JNum(x), JNum(y)>>)
          /\ \/ served = "method" /\ target = CalcName
             \/ /\ served = "router"
                /\ request.method = "POST"
                /\ request.path = Slash(ToLower(CalcName)) ) =>
            /\ response.code = StatusOK
            /\ response.body = <<"json", JNum(x + y)>>
            /\ calls = <<[name |-> CalcName,
                          args |-> <<ObjectReceiver, <<"int", x>>, <<"int", y>>>>]>>

\* POST /calc [1, 2] through the Router answers 3
C7_Witness ==
    /\ served = "router"
    /\ request.path = <<"/", "c", "a", "l", "c">>
    /\ CalcName \in DOMAIN index
    /\ DeclaredMethod(CalcName).in = <<"int", "int">>
    /\ DeclaredMethod(CalcName).out = <<"int">>
    /\ request.body = JArr(<<JNum(1), JNum(2)>>)
    /\ response.code = StatusOK
    /\ response.body = <<"json", JNum(3)>>
    /\ calls = <<[name |-> CalcName, args |-> <<ObjectReceiver, <<"int", 1>>, <<"int", 2>>>>]>>

(***************************************************************************)
(* C8                                                                      *)
(***************************************************************************)
\* C8: in the single-payload convention, for a method with one payload
\* argument, a well-formed body that decodes into the payload type leads to a
\* call, and a well-formed body that does not is answered 400 without a call.
C8_PayloadMismatchIsBadRequest ==
    \A name \in DOMAIN index :
        LET m == DeclaredMethod(name)
        IN  ( /\ ReachedJrpc(name)
              /\ Len(DataParams(m)) = 1
              /\ request.body[1] \notin {"empty", "garbage"} ) =>
                IF Unmarshal(request.body, DataParams(m)[1]).ok
                THEN Len(calls) = 1 /\ response.code # StatusBadRequest
                ELSE response.code = StatusBadRequest /\ calls = <<>>

(***************************************************************************)
(* C9                                                                      *)
(***************************************************************************)
\* the response of jrpc.RPC for a method without payload, from its declaration
NoPayloadResponse(m) ==
    IF ReturnsError(m)
    THEN [code |-> StatusInternalServerError, ctype |-> "text/plain", body |-> Text("fail")]
    ELSE IF NoValueResult(m) THEN HeaderOnly(StatusNoContent)
    ELSE [code |-> StatusOK, ctype |-> "application/json",
          body |-> <<"raw", Marshal(Call(m, <<ObjectReceiver>>)[1])>>]

\* C9: in the single-payload convention, a method without a payload argument is
\* called with the receiver (and the context) whatever the body is, absent,
\* malformed or well-formed, and the response depends on the method alone.
C9_BodyNotRead ==
    \A name \in DOMAIN index :
        LET m == DeclaredMethod(name)
        IN  (ReachedJrpc(name) /\ DataParams(m) = <<>>) =>
                /\ calls = <<[name |-> name,
                              args |-> <<ObjectReceiver>>
                                  \o (IF ContextFirst(m) THEN <<request.ctx>> ELSE <<>>)]>>
                /\ response = NoPayloadResponse(m)

\* Hi-like method (no parameter, a value) POSTed bytes that are no JSON
C9_Witness ==
    /\ served = "jrpc"
    /\ request.method = "POST"
    /\ request.path = Slash(CalcName)
    /\ request.body = <<"garbage">>
    /\ CalcName \in DOMAIN index
    /\ DeclaredMethod(CalcName).in = <<>>
    /\ DeclaredMethod(CalcName).out = <<"int">>
    /\ Len(calls) = 1
    /\ response.code = StatusOK

(***************************************************************************)
(* C10                                                                     *)
(***************************************************************************)
\* the Builder request names an indexed method and its factory call fails
FactoryFails ==
    /\ served = "builder"
    /\ request.method = "POST"
    /\ \E name \in DOMAIN index : ToLower(TrimSlash(request.path)) = ToLower(name)
    /\ request.user = "fail"

\* C10: when the session factory returns an error, Builder answers 500 with the
\* error's text as the body and calls no method, whatever the body is.
C10_FactoryFailure ==
    FactoryFails =>
        /\ response.code = StatusInternalServerError
        /\ response.body = Text("failed")
        /\ calls = <<>>

\* the factory fails on a request whose body is no JSON: 500, not 400
C10_Witness ==
    /\ FactoryFails
    /\ request.body = <<"garbage">>
    /\ response.code = StatusInternalServerError
    /\ response.body = Text("failed")
    /\ calls = <<>>

(***************************************************************************)
(* C12                                                                     *)
(***************************************************************************)
\* the lower-cased names of the methods Builder indexed
BuilderNames == { ToLower(name) : name \in DOMAIN Index(object, ZeroReceiver) }

\* C12: Builder looks methods up without regard to case: a POST whose path is
\* a case variant of an exposed method's name is dispatched to that method,
\* and a POST whose lower-cased name is not in the index is answered 404 Not
\* Found with neither the factory nor a method invoked.
C12_CaseInsensitiveLookup ==
    (served = "builder" /\ request.method = "POST") =>
        LET method == ToLower(TrimSlash(request.path))
        IN  /\ \A name \in DOMAIN Index(object, ZeroReceiver) :
                  ToLower(name) = method =>
                      /\ target = name
                      /\ \A i \in DOMAIN calls : calls[i].name = name
            /\ method \notin BuilderNames =>
                  /\ response = HeaderOnly(StatusNotFound)
                  /\ calls = <<>>
                  /\ sessions = <<>>

(***************************************************************************)
(* C13                                                                     *)
(***************************************************************************)
\* jrpc's GET of the landing page or of swagger.json
JrpcGetPage ==
    /\ served = "jrpc"
    /\ request.method = "GET"
    /\ PathBase(request.path) \in {<<"/">>, SwaggerName}

\* C13: Router, Builder and jrpc.RPC answer a request whose HTTP method is
\* not POST with 405 Method Not Allowed and invoke neither the factory nor a
\* method, whatever the path; only jrpc's GET of the landing page and of
\* swagger.json is answered otherwise, and it invokes nothing either.
C13_NonPostRejected ==
    (served \in {"router", "builder", "jrpc"} /\ request.method # "POST") =>
        /\ calls = <<>>
        /\ sessions = <<>>
        /\ requestID = 0
        /\ ~JrpcGetPage => response.code = StatusMethodNotAllowed
        /\ JrpcGetPage => response.code = StatusOK

\* a PUT to the path of an exposed method was served by Builder
C13_Witness ==
    /\ served = "builder"
    /\ request.method = "PUT"
    /\ request.path = Slash(CalcName)
    /\ request.user = "reddec"
    /\ CalcName \in DOMAIN index
    /\ response = HeaderOnly(StatusMethodNotAllowed)

(***************************************************************************)
(* C14                                                                     *)
(***************************************************************************)
\* C14: jrpc.RPC looks a method up by the last element of the path, with the
\* case of the letters kept: a POST whose name is not an indexed name is
\* answered 404 Not Found whatever its body holds, and no method is invoked;
\* a POST to an indexed method whose call returns without an error is answered
\* 200 with a JSON body when the method has a value result and 204 No Content
\* with no body when it has none.
C14_JrpcLookup ==
    (served = "jrpc" /\ request.method = "POST") =>
        LET name == PathBase(request.path)
            known == name \in DOMAIN JrpcNew(object, ObjectReceiver)
        IN  /\ ~known => (response = HeaderOnly(StatusNotFound) /\ calls = <<>>)
            /\ (known /\ calls # <<>> /\ ~ReturnsError(DeclaredMethod(name))) =>
                  /\ Len(calls) = 1
                  /\ calls[1].name = name
                  /\ IF NoValueResult(DeclaredMethod(name))
                     THEN response = HeaderOnly(StatusNoContent)
                     ELSE /\ response.code = StatusOK
                          /\ response.ctype = "application/json"
                          /\ response.body[1] = "raw"

\* a POST of a well-formed body to the lower-cased name of an indexed method
\* was answered 404
C14_Witness ==
    /\ served = "jrpc"
    /\ request.method = "POST"
    /\ request.path = Slash(ToLower(CalcName))
    /\ request.body = JArr(<<JNum(1), JNum(2)>>)
    /\ CalcName \in DOMAIN JrpcNew(object, ObjectReceiver)
    /\ response = HeaderOnly(StatusNotFound)
    /\ calls = <<>>

(***************************************************************************)
(* C11                                                                     *)
(***************************************************************************)
\* the path of the frame's request names a method Builder indexed
NamesBuilderMethod(f) == ToLower(TrimSlash(f.req.path)) \in BuilderNames

\* C11: under every interleaving of concurrent requests, a POST that Builder
\* serves for a known method invokes the factory exactly once, before the
\* method, and the method is invoked on the receiver that this request's
\* factory call returned: never on the zero value the methods were indexed
\* on, and never on a receiver the factory returned for another request.
C11_OwnReceiver ==
    \A r \in Requests :
        LET f == inflight[r]
        IN  f.via = "builder" =>
              /\ Len(f.sessions) <= 1
              /\ ( /\ f.pc \in {"bind", "call", "done"}
                   /\ f.req.method = "POST"
                   /\ NamesBuilderMethod(f) ) => Len(f.sessions) = 1
              /\ f.called # <<>> =>
                    /\ Len(f.called) = 1
                    /\ Len(f.sessions) = 1
                    /\ f.sessions[1].err = Nil
                    /\ f.called[1].args[1] = f.sessions[1].value
                    /\ f.called[1].args[1] # ZeroReceiver
                    /\ \A q \in Requests \ {r} :
                          \A i \in DOMAIN inflight[q].sessions :
                              inflight[q].sessions[i].value # f.called[1].args[1]

\* the factory served request 1 first; request 2 was given its own session
\* and its method was called while request 1 had not called its method yet
C11_Witness ==
    /\ inflight[1].via = "builder"
    /\ inflight[1].pc = "call"
    /\ inflight[1].receiver = <<"session", "reddec", 1>>
    /\ inflight[2].via = "builder"
    /\ inflight[2].pc = "done"
    /\ inflight[2].called # <<>>
    /\ inflight[2].called[1].args[1] = <<"session", "reddec", 2>>

(***************************************************************************)
(* C20                                                                     *)
(***************************************************************************)
\* what the handler of the frame's convention answers to the frame's request
\* when no other request is served
Alone(f) ==
    CASE f.via = "method"  -> MethodServeHTTP(Index(object, ObjectReceiver)[CalcName], f.req)
      [] f.via = "jrpc"    -> JrpcServeHTTP(JrpcNew(object, ObjectReceiver), f.req)
      [] f.via = "builder" ->
            LET handlers == Index(object, ZeroReceiver)
                out == BuilderServeHTTP(handlers, CHOOSE ch \in CaseHandlers(handlers) : TRUE,
                                        f.req, 0)
            IN  Outcome(out.response, out.calls)

\* C20: a dispatch leaves the index and its descriptors as they were, and
\* every request served concurrently with others on the same descriptor gets
\* the response it gets when served alone, its method being called (if at
\* all) with the arguments decoded from its own body and nobody else's; the
\* receiver of a session request is the request's own.
C20_DispatchIsolated ==
    /\ index = Index(object, ObjectReceiver)
    /\ \A r \in Requests :
          LET f == inflight[r]
          IN  f.pc = "done" =>
                /\ f.response = Alone(f).response
                /\ Len(f.called) = Len(Alone(f).calls)
                /\ \A i \in DOMAIN f.called :
                      /\ f.called[i].name = Alone(f).calls[i].name
                      /\ Tail(f.called[i].args) = Tail(Alone(f).calls[i].args)
                      /\ f.called[i].args[1] = (IF f.via = "builder" THEN f.receiver
                                                ELSE ObjectReceiver)

\* two requests on one descriptor: request 2 was answered with the sum of its
\* own payload while request 1 held its filled argument vector
C20_Witness ==
    /\ inflight[1].via = "method"
    /\ inflight[1].pc = "call"
    /\ inflight[1].req.body = JArr(<<JArr(<<JNum(1)>>)>>)
    /\ inflight[2].via = "method"
    /\ inflight[2].pc = "done"
    /\ inflight[2].req.body = JArr(<<JArr(<<JNum(1), JNum(2)>>)>>)
    /\ inflight[2].response.code = StatusOK
    /\ inflight[2].called # <<>>
    /\ inflight[2].called[1].args[2] = <<"[]int", <<1, 2>>>>


(***************************************************************************)
(* Schema synthesis: what the properties speak of                          *)
(***************************************************************************)

\* the type behind the pointers, slices and arrays of t
RECURSIVE Target(_)
Target(t) == IF t[1] \in {"ptr", "slice", "array"} THEN Target(Elem(t)) ELSE t

\* the node behind the arrays of a node
RECURSIVE Leaf(_)
Leaf(node) == IF node.type = "array" /\ node.items # <<>> THEN Leaf(node.items) ELSE node

\* the fields of a declared struct that walkStruct gives a property, and the
\* key of the property
Exported(ref) ==
    { i \in 1..Len(Decls[ref][2]) :
        Decls[ref][2][i].pkgPath = "" /\ Decls[ref][2][i].json # "-" }

KeyOf(f) == IF f.json = "" THEN f.name ELSE f.json

\* the declared structs no hook stands for
Walked == { ref \in DOMAIN Decls : Decls[ref][1] = "struct" /\ ref \notin DOMAIN sb.hooks }

\* the declared structs a field of ref leads to
Refers(ref) ==
    { <<Target(Decls[ref][2][i].type)[2], Target(Decls[ref][2][i].type)[3]>> :
        i \in { j \in Exported(ref) : Target(Decls[ref][2][j].type)[1] = "named" } }
    \cap Walked

\* the declared structs reached from the structs of a set
RECURSIVE ReachedFrom(_)
ReachedFrom(refs) ==
    LET more == refs \cup UNION { Refers(ref) : ref \in refs }
    IN  IF more = refs THEN refs ELSE ReachedFrom(more)

\* ref refers to itself, directly or through other declared structs
SelfReferential(ref) == ref \in ReachedFrom(Refers(ref))

\* the reference to a registered struct
ReferenceTo(builder, ref) ==
    [ZeroType EXCEPT !.ref = "#/components/schemas/" \o builder.components[ref].name]

\* C15: synthesis over types that refer to themselves, directly or through
\* pointers, slices and other named structs, terminates (the stack is never
\* exhausted), and each occurrence of a type of the cycle inside the cycle
\* is a reference to the node that is registered for it
C15_SelfReferenceTerminates ==
    /\ ~sb.overflow
    /\ \A ref \in DOMAIN sb.components :
        SelfReferential(ref) =>
            \A i \in Exported(ref) :
                LET f == Decls[ref][2][i]
                    to == <<Target(f.type)[2], Target(f.type)[3]>>
                IN  (Target(f.type)[1] = "named" /\ to \in Walked
                        /\ ref \in ReachedFrom({to})) =>
                        /\ to \in DOMAIN sb.components
                        /\ KeyOf(f) \in DOMAIN sb.components[ref].properties
                        /\ Leaf(sb.components[ref].properties[KeyOf(f)])
                             = ReferenceTo(sb, to)

\* a pass that has walked Account, which holds a slice of pointers to
\* Account, and the two structs that refer to each other, and has returned
C15_Witness ==
    /\ returned
    /\ ~sb.overflow
    /\ {<<"schema_test", "Account">>, <<"graph", "Node">>, <<"graph", "Edge">>}
         \subseteq DOMAIN sb.components
    /\ sb.components[<<"schema_test", "Account">>].properties["SubAccounts"].items.ref
         = "#/components/schemas/Account"
    /\ sb.components[<<"graph", "Edge">>].properties["To"].ref = "#/components/schemas/Node"
    /\ sb.components[<<"graph", "Node">>].properties["Edges"].items.ref
         = "#/components/schemas/Edge"


\* the type behind the pointers of t
RECURSIVE Deref(_)
Deref(t) == IF t[1] = "ptr" THEN Deref(t[2]) ELSE t

\* the path item of a visited method
PathOf(method) == schema.paths[Slash(ToLower(method))]

\* the visited methods whose path item is in the document
Described == { m \in DOMAIN api \ pending : PathOf(m).operationId = m }

\* the types the pass has met so far, each with the node made of it: the
\* fields of the registered structs, the arguments and the results of the
\* visited methods
Occurrences ==
    UNION { { <<Decls[ref][2][i].type, sb.components[ref].properties[KeyOf(Decls[ref][2][i])]>> :
                i \in Exported(ref) } : ref \in DOMAIN sb.components }
    \cup UNION { { <<Args(api[m])[i], PathOf(m).requestBody.prefixItems[i]>> :
                     i \in 1..Len(Args(api[m])) } : m \in Described }
    \cup { <<Response(api[m]), PathOf(m).ok>> :
             m \in { v \in Described : api[v].hasResponse } }

ByteSlice(t) == t[1] = "slice" /\ t[2] = <<"uint8">>

ByteArray(t) == t[1] = "array" /\ t[3] = <<"uint8">>

\* C16 as stated: every sequence of bytes, of variable or of fixed length, is
\* a string with the base64 format marker
C16_ByteSequencesAreBase64 ==
    \A occ \in Occurrences :
        (ByteSlice(Deref(occ[1])) \/ ByteArray(Deref(occ[1]))) => occ[2] = Defaults.Base64

\* C16: every slice of bytes is a string with the base64 format marker and
\* never an array of integers (the rule comes before the rule of the other
\* slices); an array of N bytes is an array of exactly N integers of 0..255
C16_ByteSlicesAreBase64 ==
    \A occ \in Occurrences :
        /\ ByteSlice(Deref(occ[1])) =>
              /\ occ[2] = [ZeroType EXCEPT !.type = "string", !.format = "byte"]
              /\ occ[2].type # "array"
        /\ ByteArray(Deref(occ[1])) =>
              occ[2] = [ZeroType EXCEPT !.type = "array",
                                        !.items = Defaults.uint8,
                                        !.minItems = Deref(occ[1])[2],
                                        !.maxItems = Deref(occ[1])[2]]

\* Upload([]byte, [4]byte, []int) was visited and Account, with Logo []byte,
\* was walked
C16_Witness ==
    /\ returned
    /\ <<"U","p","l","o","a","d">> \in DOMAIN api
    /\ PathOf(<<"U","p","l","o","a","d">>).requestBody.prefixItems[1].format = "byte"
    /\ PathOf(<<"U","p","l","o","a","d">>).requestBody.prefixItems[2].maxItems = 4
    /\ <<"schema_test", "Account">> \in DOMAIN sb.components
    /\ sb.components[<<"schema_test", "Account">>].properties["Logo"].format = "byte"


\* the registered structs of one bare name
Namesakes(ref) == { other \in DOMAIN sb.components : other[2] = ref[2] }

\* the name a registered struct was given, and the entry of the components
\* section a reference to it leads to
NameOf(ref) == sb.components[ref].name

Resolves(ref) ==
    /\ NameOf(ref) \in DOMAIN schema.components
    /\ schema.components[NameOf(ref)] = sb.components[ref]

\* C17: of two structs of different packages with one bare name, the
\* returned components section holds two entries with different names, one of
\* them the bare name and the other a suffixed name, and the reference to
\* each of the two leads to the entry built from it
C17_SameNameDistinctEntries ==
    returned =>
        \A a, b \in DOMAIN sb.components :
            (a # b /\ Namesakes(a) = {a, b}) =>
                /\ NameOf(a) # NameOf(b)
                /\ a[2] \in {NameOf(a), NameOf(b)}
                /\ Resolves(a)
                /\ Resolves(b)


\* the entries of the returned components section that hold the node of ref
EntriesOf(ref) ==
    { k \in DOMAIN schema.components : schema.components[k] = sb.components[ref] }

\* C18: in one pass each named struct has one node: the counter of its bare
\* name was incremented once for it (the fields of a struct are walked where
\* the counter is incremented), every occurrence of it is a reference with
\* the name of that node, and the returned components section holds exactly
\* one entry for it
C18_OneNodePerType ==
    returned =>
        \A ref \in DOMAIN sb.components :
            /\ sb.names[ref[2]] = Cardinality(Namesakes(ref))
            /\ \A occ \in Occurrences :
                  (Target(occ[1])[1] = "named"
                     /\ <<Target(occ[1])[2], Target(occ[1])[3]>> = ref) =>
                        Leaf(occ[2]) = ReferenceTo(sb, ref)
            /\ Cardinality(EntriesOf(ref)) = 1


\* the builder and the paths the loop over the index can end with, the
\* methods of left being visited in any order
RECURSIVE Passes(_, _, _, _)
Passes(idx, builder, paths, left) ==
    IF left = {} THEN { [sb |-> builder, paths |-> paths] }
    ELSE UNION { AndThen(Endpoint(builder, method, idx[method]),
                         LAMBDA after, path :
                           Passes(idx, after, Put(paths, Slash(ToLower(method)), path),
                                  left \ {method})) : method \in left }

\* the documents OpenAPI can return for an index
Documents(idx) ==
    UNION { { [openapi |-> "3.1.0", paths |-> pass.paths, components |-> schemas] :
                schemas \in ComponentSchemas(pass.sb.components) } :
            pass \in Passes(idx, [NewBuilder EXCEPT !.hooks = sb.hooks], <<>>, DOMAIN idx) }

\* a node as it is written: Name has the tag json:"-"
RECURSIVE Shown(_)
Shown(node) ==
    [node EXCEPT !.name = "",
                 !.items = IF node.items = <<>> THEN <<>> ELSE Shown(node.items),
                 !.properties = [k \in DOMAIN node.properties |-> Shown(node.properties[k])],
                 !.prefixItems = [i \in DOMAIN node.prefixItems |-> Shown(node.prefixItems[i])]]

\* a document as it is written
ShownDocument(doc) ==
    [paths |-> [k \in DOMAIN doc.paths |->
                  [doc.paths[k] EXCEPT !.requestBody = Shown(@), !.ok = Shown(@)]],
     components |-> [k \in DOMAIN doc.components |-> Shown(doc.components[k])]]

\* C19: the document returned for an index is the document every pass over
\* that index returns, in whatever order the methods are visited: the same
\* endpoint keys, the same component names, the same reference targets
C19_Deterministic ==
    returned =>
        \A doc \in Documents(api) : ShownDocument(doc) = ShownDocument(schema)


(***************************************************************************)
(* C21                                                                     *)
(***************************************************************************)
\* how far the handler of a frame has come
Rank(pc) ==
    CASE pc = "idle" -> 0 [] pc = "route" -> 1 [] pc = "factory" -> 2
      [] pc = "bind" -> 3 [] pc = "call" -> 4 [] pc = "done" -> 5

\* the response is one of the errors of the handlers
IsFailure(resp) ==
    resp.code \in {StatusBadRequest, StatusNotFound, StatusMethodNotAllowed,
                   StatusInternalServerError}

\* every argument of the call, receiver and context included, has a value
AllBound(f, made) ==
    /\ Len(made.args) = NumIn(FrameHandler(f).method)
    /\ \A i \in DOMAIN made.args : made.args[i] # Nil

\* the request is no call of a method: a GET of the page or of the schema
\* of jrpc.RPC
ServesDocument(f) ==
    /\ f.via = "jrpc"
    /\ f.req.method = "GET"
    /\ PathBase(f.req.path) \in {<<>>, <<"/">>, SwaggerName}

\* what a step of one handler may do to its frame
OneOutcome(f, g) ==
    /\ f.pc = "done" => g = f
    /\ g # f => Rank(g.pc) > Rank(f.pc)
    /\ (g.response # NoResponse) = (g.pc = "done")
    /\ Len(g.sessions) <= 1
    /\ Len(g.called) <= 1
    /\ Len(g.sessions) > Len(f.sessions) => f.pc = "factory"
    /\ Len(g.called) > Len(f.called) =>
          /\ f.pc = "call"
          /\ AllBound(f, g.called[1])
    /\ (g.pc = "done" /\ f.pc # "done" /\ f.pc # "call") =>
          /\ IF ServesDocument(g)
             THEN g.response.code = StatusOK /\ g.response.body \in {<<"page">>, <<"schema">>}
             ELSE IsFailure(g.response)
          /\ g.called = <<>>

\* C21: every call is terminal and has exactly one outcome: in one request
\* the factory and the method are each called at most once, the method only
\* once all its arguments are bound; a failure of the method check, the
\* lookup, the factory, the decoding or the binding answers with one error
\* and the method is not called, an error of the method answers with one
\* error after its one call; a request that was answered takes no further
\* step, and no step is taken twice.  A GET of the page or of the schema of
\* jrpc.RPC is no call: it is answered once, with the document
C21_ExactlyOneOutcome ==
    [][\A r \in Requests : OneOutcome(inflight[r], inflight'[r])]_vars

\* request 1 called the method once and answered with the method's error;
\* request 2 failed to decode its body and answered without a call
C21_Witness ==
    /\ inflight[1].pc = "done"
    /\ Len(inflight[1].called) = 1
    /\ inflight[1].response.code = StatusInternalServerError
    /\ inflight[2].via = "builder"
    /\ inflight[2].pc = "done"
    /\ Len(inflight[2].sessions) = 1
    /\ inflight[2].response.code = StatusBadRequest
    /\ inflight[2].called = <<>>


(***************************************************************************)
(* C22                                                                     *)
(***************************************************************************)
\* C22: for every index the lower-cased keys keep one entry per method: the
\* paths of the returned document are as many as the methods and each method
\* is described under its own lower-cased name; Router can be built and has
\* one route per method; every map Builder can fill leads from the
\* lower-cased name of each method to that method
C22_OneKeyPerMethod ==
    returned =>
        /\ Cardinality(DOMAIN schema.paths) = Cardinality(DOMAIN api)
        /\ \A m \in DOMAIN api :
              /\ Slash(ToLower(m)) \in DOMAIN schema.paths
              /\ PathOf(m).operationId = m
        /\ ~RouterPanics(api)
        /\ Cardinality(Routes(api)) = Cardinality(DOMAIN api)
        /\ \A caseHandlers \in CaseHandlers(api) :
              \A m \in DOMAIN api : caseHandlers[ToLower(m)] = m


(***************************************************************************)
(* C23                                                                     *)
(***************************************************************************)
\* C23: every map type is an object that is open to any key, with the walk
\* of the map's value type as the schema of its values: the node is an
\* object and not the placeholder, and a named struct that is the value type
\* of the map is walked and registered
C23_MapsAreOpenObjects ==
    \A occ \in Occurrences :
        Deref(occ[1])[1] = "map" =>
            /\ occ[2].type = "object"
            /\ occ[2] # Defaults.Any
            /\ Target(Deref(occ[1])[3])[1] = "named" =>
                  <<Target(Deref(occ[1])[3])[2], Target(Deref(occ[1])[3])[3]>>
                      \in DOMAIN sb.components


(***************************************************************************)
(* C24                                                                     *)
(***************************************************************************)
\* the name in a json tag: what stands before the first comma (the options
\* follow it), as encoding/json reads the tag
RECURSIVE TagName(_, _)
TagName(tag, i) ==
    IF i > Len(tag) THEN tag
    ELSE IF SubSeq(tag, i, i) = "," THEN SubSeq(tag, 1, i - 1)
    ELSE TagName(tag, i + 1)

\* the name a field is serialized under: the name of its tag, or the declared
\* name when the tag gives none
SerializedName(f) == IF TagName(f.json, 1) = "" THEN f.name ELSE TagName(f.json, 1)

\* C24: each exported field of a walked struct that the tag "-" does not
\* exclude gives exactly one property, under the name of its tag if the tag
\* names one and under the declared name otherwise, also when the tag has
\* options after the name or options only; no other field gives a property
C24_PropertyKeys ==
    \A ref \in DOMAIN sb.components :
        /\ DOMAIN sb.components[ref].properties
             = { SerializedName(Decls[ref][2][i]) : i \in Exported(ref) }
        /\ Cardinality(DOMAIN sb.components[ref].properties) = Cardinality(Exported(ref))


(***************************************************************************)
(* C25                                                                     *)
(***************************************************************************)
\* the declared types with a hook, and pointers to them
HookedTypes ==
    { <<"named", ref[1], ref[2]>> : ref \in DOMAIN Decls \cap DOMAIN sb.hooks }
    \cup { <<"ptr", <<"named", ref[1], ref[2]>>>> : ref \in DOMAIN Decls \cap DOMAIN sb.hooks }

\* C25: a hook comes before every rule by kind: the walk of a type with a
\* hook, built in or defined by an option, returns the node of the hook and
\* leaves the builder as it was (no component, no counter), whatever was
\* walked before; every occurrence of such a type in a pass is the node of
\* its hook, and the type is not among the components
C25_HooksFirst ==
    /\ \A t \in HookedTypes :
          walk(sb, t, 1) = [sb |-> sb, type |-> sb.hooks[refOf(Deref(t))]]
    /\ \A occ \in Occurrences :
          refOf(Target(occ[1])) \in DOMAIN sb.hooks =>
              Leaf(occ[2]) = sb.hooks[refOf(Target(occ[1]))]
    /\ \A ref \in DOMAIN sb.hooks :
          /\ ref \notin DOMAIN sb.components
          /\ ref[2] \in DOMAIN sb.names => \E other \in DOMAIN sb.components : other[2] = ref[2]

\* Account was defined as a string and User, which holds an Account, a slice
\* of pointers to Account and a time.Time, was walked
C25_Witness ==
    /\ returned
    /\ <<"schema_test", "Account">> \in DOMAIN sb.hooks
    /\ <<"schema_test", "User">> \in DOMAIN sb.components
    /\ sb.components[<<"schema_test", "User">>].properties["Primary"].description
         = "account number"
    /\ sb.components[<<"schema_test", "User">>].properties["Accounts"].items.type = "string"
    /\ sb.components[<<"schema_test", "User">>].properties["CreatedAt"].format = "date-time"
    /\ "Account" \notin DOMAIN sb.names

(***************************************************************************)
(* The schema of the positional payload                                    *)
(***************************************************************************)
\* the declared types of the arguments of method m that travel in the payload:
\* its parameters without the receiver and without a leading context
DataArguments(m) ==
    IF "method" \notin DOMAIN api[m] THEN api[m].argTypes
    ELSE LET in == api[m].method.in
             rest == IF in # <<>> /\ in[1] = "Context" THEN Tail(in) ELSE in
         IN  [i \in DOMAIN rest |-> ReflectType(rest[i])]

\* C26: the request schema of every described method is an array whose
\* minItems and maxItems both are the number of the arguments that travel in
\* the payload, the i-th prefix item is what the walk of the i-th of their
\* types gives, and a method without a value has the unconstrained
\* placeholder as its success schema
C26_PositionalArgsSchema ==
    \A m \in Described :
        LET body == PathOf(m).requestBody
            data == DataArguments(m)
        IN  /\ body.type = "array"
            /\ body.minItems = Len(data)
            /\ body.maxItems = Len(data)
            /\ Len(body.prefixItems) = Len(data)
            /\ \A i \in 1..Len(data) : body.prefixItems[i] = walk(sb, data[i], 1).type
            /\ ~api[m].hasResponse => PathOf(m).ok = Defaults.Any

\* the document of a method with a leading context and two more parameters
\* is written, or that of a method of three parameters and no value
C26_Witness ==
    /\ returned
    /\ \E m \in Described :
          \/ /\ "method" \in DOMAIN api[m]
             /\ api[m].method.in = <<"Context", "int", "SomeObj">>
             /\ PathOf(m).requestBody.minItems = 2
          \/ /\ Len(DataArguments(m)) = 3
             /\ ~api[m].hasResponse
             /\ PathOf(m).ok = Defaults.Any

(***************************************************************************)
(* Component names                                                         *)
(***************************************************************************)
\* C27: in one pass no two registered structs are given one component name,
\* however many structs share a bare name, and the returned components
\* section holds one entry for each registered struct
C27_NamesInjective ==
    /\ \A a, b \in DOMAIN sb.components : a # b => NameOf(a) # NameOf(b)
    /\ returned =>
          /\ Cardinality(DOMAIN schema.components) = Cardinality(DOMAIN sb.components)
          /\ \A ref \in DOMAIN sb.components : Resolves(ref)

(***************************************************************************)
(* References of the document                                              *)
(***************************************************************************)
\* the $ref values of a node and of the nodes below it
RECURSIVE RefsIn(_)
RefsIn(node) ==
    (IF node.ref = "" THEN {} ELSE {node.ref})
    \cup (IF node.items = <<>> THEN {} ELSE RefsIn(node.items))
    \cup UNION { RefsIn(node.properties[k]) : k \in DOMAIN node.properties }
    \cup UNION { RefsIn(node.prefixItems[i]) : i \in DOMAIN node.prefixItems }

\* the $ref values of the document: of the request and response schemas of
\* every path and of every entry of the components section
DocumentRefs ==
    UNION { RefsIn(schema.paths[p].requestBody) \cup RefsIn(schema.paths[p].ok)
            \cup RefsIn(schema.paths[p].badRequest)
            \cup RefsIn(schema.paths[p].internalError) : p \in DOMAIN schema.paths }
    \cup UNION { RefsIn(schema.components[k]) : k \in DOMAIN schema.components }

\* C28: every $ref of a returned document names a key of its components
\* section, and every entry of the components section is the node of a
\* registered struct that has a name, filed under a name that is not empty
C28_ReferencesResolve ==
    returned =>
        /\ \A r \in DocumentRefs :
              \E k \in DOMAIN schema.components : r = "#/components/schemas/" \o k
        /\ \A k \in DOMAIN schema.components :
              /\ k # ""
              /\ \E ref \in DOMAIN sb.components :
                    ref[2] # "" /\ sb.components[ref] = schema.components[k]

\* a document is returned in which a path refers to a name that two
\* registered structs were given
C28_Witness ==
    /\ returned
    /\ \E a, b \in DOMAIN sb.components :
          /\ a # b
          /\ NameOf(a) = NameOf(b)
          /\ "#/components/schemas/" \o NameOf(a) \in DocumentRefs

\* a document is returned whose components section holds a struct with a
\* field of a struct type without a name, described in place
C28_WitnessAnonymous ==
    /\ returned
    /\ "Account" \in DOMAIN schema.components
    /\ "Link" \in DOMAIN schema.components["Account"].properties
    /\ schema.components["Account"].properties["Link"].type = "object"
    /\ schema.components["Account"].properties["Link"].ref = ""

(***************************************************************************)
(* The generator of the TypeScript client (package compile)                *)
(*   a scanned method is [name, args, result]: args the parameters the     *)
(*   generated function takes and passes to invoke, each with its position *)
(*   in the declaration and its type; result the type of the value or Nil  *)
(***************************************************************************)
\* isError: the type is the predeclared error
isError(t) == t = "error"

\* isContext: the type is context.Context
isContext(t) == t = "Context"

\* TypeLookup.CastToTypesScript, with the text TSVar.Render gives for the
\* type: [panics, ts].  The predeclared error is a *types.Named without a
\* package: obj.Pkg() is nil and pkg.Path() dereferences it
CastToTypesScript(t) ==
    CASE t = "int"     -> [panics |-> FALSE, ts |-> "number"]
      [] t = "string"  -> [panics |-> FALSE, ts |-> "string"]
      [] t = "[]int"   -> [panics |-> FALSE, ts |-> "number[]"]
      [] t = "SomeObj" -> [panics |-> FALSE, ts |-> "SomeObj"]
      [] t = "Context" -> [panics |-> FALSE, ts |-> "Context"]
      [] t = "error"   -> [panics |-> TRUE, ts |-> ""]

\* the loop of scanMethod over sig.Params(), from parameter i on
RECURSIVE scanParams(_, _, _)
scanParams(in, i, args) ==
    IF i > Len(in) THEN args
    ELSE IF isContext(in[i]) THEN scanParams(in, i + 1, args)
    ELSE scanParams(in, i + 1,
                    Append(args, [position |-> i, type |-> in[i],
                                  ts |-> CastToTypesScript(in[i]).ts]))

\* TypeLookup.scanMethod: [ok, panics, fn]; the result is cast before the
\* parameters are looked at
scanMethod(m) ==
    LET resN == Len(m.out)
        skipped == [ok |-> FALSE, panics |-> FALSE, fn |-> Nil]
        result == IF resN = 2 THEN m.out[1]
                  ELSE IF resN = 1 /\ ~isError(m.out[1]) THEN m.out[1]
                  ELSE "void"
    IN  IF ~IsExported(m.name) THEN skipped
        ELSE IF resN > 2 THEN skipped
        ELSE IF resN = 2 /\ ~isError(m.out[2]) THEN skipped
        ELSE IF result # "void" /\ CastToTypesScript(result).panics
        THEN [ok |-> FALSE, panics |-> TRUE, fn |-> Nil]
        ELSE [ok |-> TRUE, panics |-> FALSE,
              fn |-> [name |-> m.name, args |-> scanParams(m.in, 1, <<>>),
                      result |-> IF result = "void" THEN Nil
                                 ELSE <<result, CastToTypesScript(result).ts>>]]

\* TypeLookup.ScanAPI: [panics, methods]: the scanned methods of the object,
\* none when the scan of one of them panics
ScanAPI(obj) ==
    IF \E m \in obj : scanMethod(m).panics THEN [panics |-> TRUE, methods |-> {}]
    ELSE [panics |-> FALSE,
          methods |-> { scanMethod(m).fn : m \in { d \in obj : scanMethod(d).ok } }]

\* the method template: the positional payload the generated function gives
\* to invoke, one element for each of $method.ArgNames
InvokeArgs(fn) == [i \in DOMAIN fn.args |-> fn.args[i].type]

\* C29: the generator writes a function for exactly the methods rpc.Index
\* exposes, and the function passes one argument for each of the descriptor's
\* argTypes, in their order
C29_ClientMatchesIndex ==
    /\ ~ScanAPI(object).panics
    /\ { fn.name : fn \in ScanAPI(object).methods } = DOMAIN index
    /\ \A fn \in ScanAPI(object).methods :
          fn.name \in DOMAIN index => InvokeArgs(fn) = index[fn.name].argTypes

(***************************************************************************)
(* The body of a positional call is decoded first                          *)
(***************************************************************************)
\* C30: whatever the number of the method's data arguments, none included, a
\* positional call whose body has no byte or is not an array is answered 400
\* with the decoder's error and without a call; the body null and the empty
\* array both count as no element: a method without data arguments is called
\* once and not answered 400, any other method is told that there are not
\* enough arguments
C30_DecodedBeforeArity ==
    \A name \in DOMAIN index :
        ReachedPositional(name) =>
            LET n == Len(DataParams(DeclaredMethod(name)))
            IN  /\ request.body[1] \notin {"arr", "null"} =>
                      /\ response = HttpError(DecodeParams(request.body).err,
                                              StatusBadRequest)
                      /\ calls = <<>>
                /\ request.body \in {JNull, JArr(<<>>)} =>
                      IF n = 0
                      THEN /\ response.code # StatusBadRequest
                           /\ Len(calls) = 1
                           /\ calls[1].name = name
                      ELSE /\ response = HttpError("not enough arguments, expected "
                                                     \o ToString(n), StatusBadRequest)
                           /\ calls = <<>>

\* a method without data arguments called with a body without a byte: 400 with
\* the decoder's EOF, and no call
C30_Witness ==
    /\ served = "method"
    /\ DataParams(DeclaredMethod(target)) = <<>>
    /\ request.body = <<"empty">>
    /\ response = HttpError("EOF", StatusBadRequest)
    /\ calls = <<>>

\* a method without data arguments called with the body null: it is called
C30_WitnessNull ==
    /\ served = "method"
    /\ DataParams(DeclaredMethod(target)) = <<>>
    /\ request.body = JNull
    /\ response.code # StatusBadRequest
    /\ Len(calls) = 1
====
